---- MODULE Spec2Model ----
(***************************************************************************)
(* Model of the iterative schema-linking engine (src/agents/schema.py)     *)
(* together with the column index (src/infra/vector_store.py), the probe   *)
(* service (src/infra/db.py) and the prompt/response gateway               *)
(* (src/infra/llm.py) it drives.                                           *)
(*                                                                         *)
(* One run of SchemaAgent.run is a state machine:                          *)
(*   start --Seed--> loop --CallLLM--> dispatch --Dispatch*--> endstep     *)
(*         --EndStep--> loop | exit --Finish--> done                       *)
(* and any step that raises a Python exception moves to "raised".          *)
(***************************************************************************)
EXTENDS Integers, Sequences, FiniteSets, TLC

----------------------------------------------------------------------------
(* Bounds of the exploration *)

MaxSteps == 2          \* largest max_steps a configuration may carry
MaxEmitted == 2        \* most actions the gateway emits over one run
MaxScripted == 3       \* most actions a scripted gateway emits over one run
MaxRowLimit == 3       \* largest row_limit a direct probe call is given
MaxWindowSteps == 4    \* max_steps of the runs that outgrow the prompt window
MaxCandidateList == 3  \* longest candidate list a direct call of verify is given
MaxCatalog == 3        \* most databases a catalog handed to the Router lists

----------------------------------------------------------------------------
(* Generic helpers for Python lists, dicts and slices *)

Min(a, b) == IF a <= b THEN a ELSE b

Max(a, b) == IF a >= b THEN a ELSE b

Range(s) == {s[i] : i \in 1..Len(s)}

\* Python s[:k]: a prefix; a negative k counts from the end
SlicePrefix(s, k) ==
  IF k >= 0 THEN SubSeq(s, 1, Min(k, Len(s)))
  ELSE SubSeq(s, 1, Max(Len(s) + k, 0))

\* a slice that keeps the whole list
SliceWhole(s, k) == s

\* Python s[-k:] for k > 0
SliceTail(s, k) == SubSeq(s, Max(Len(s) - k, 0) + 1, Len(s))

\* Python dict.get(key, default) on a record
Get(d, key, default) == IF key \in DOMAIN d THEN d[key] ELSE default

\* all sequences over S of length at most n
SeqUpTo(S, n) == UNION {[1..k -> S] : k \in 0..n}

----------------------------------------------------------------------------
(* Column descriptors: ColumnSnippet of src/infra/vector_store.py *)

ColumnSnippet(t, n, ty, desc, pk, fk) ==
  [table |-> t, name |-> n, type |-> ty, description |-> desc,
   is_pk |-> pk, is_fk |-> fk, sample_values |-> <<>>]

\* ColumnSnippet.id: f"{self.table}.{self.name}"
id(c) == c.table \o "." \o c.name

Ids(cols) == [i \in 1..Len(cols) |-> id(cols[i])]

\* StubSchemaVectorStore.mock_schema["sales"]
mock_schema ==
  << ColumnSnippet("orders", "order_id", "INT", "", TRUE, FALSE),
     ColumnSnippet("orders", "customer_id", "INT", "", FALSE, TRUE),
     ColumnSnippet("orders", "order_date", "DATE", "", FALSE, FALSE),
     ColumnSnippet("orders", "total_amount", "NUMERIC", "", FALSE, FALSE),
     ColumnSnippet("customers", "customer_id", "INT", "", TRUE, FALSE),
     ColumnSnippet("customers", "country", "TEXT", "", FALSE, FALSE) >>

\* Column lists SpiderSnowSchemaStore._ensure_loaded builds from the
\* DB_schema files of a database.
\* No directory for the database: no columns.
SpiderNoColumns == <<>>

\* One JSON file per table.
SpiderColumns ==
  << ColumnSnippet("orders", "order_id", "NUMBER", "", FALSE, FALSE),
     ColumnSnippet("orders", "total_amount", "FLOAT", "", FALSE, FALSE),
     ColumnSnippet("customers", "country", "TEXT", "", FALSE, FALSE) >>

\* Two JSON files whose table_fullname ends in the same short table name
\* ("S1.orders", "S2.orders"): _ensure_loaded keeps table_name.split(".")[-1]
\* and appends the columns of both files.
SpiderColumnsTwoSchemas ==
  << ColumnSnippet("orders", "order_id", "NUMBER", "s1", FALSE, FALSE),
     ColumnSnippet("orders", "order_id", "TEXT", "s2", FALSE, FALSE),
     ColumnSnippet("customers", "country", "TEXT", "", FALSE, FALSE) >>

\* One JSON file of a table with more columns than a prompt lists.
SpiderWideColumns ==
  << ColumnSnippet("orders", "order_id", "NUMBER", "", FALSE, FALSE),
     ColumnSnippet("orders", "customer_id", "NUMBER", "", FALSE, FALSE),
     ColumnSnippet("orders", "order_date", "DATE", "", FALSE, FALSE),
     ColumnSnippet("orders", "total_amount", "FLOAT", "", FALSE, FALSE),
     ColumnSnippet("orders", "status", "TEXT", "", FALSE, FALSE),
     ColumnSnippet("orders", "region", "TEXT", "", FALSE, FALSE),
     ColumnSnippet("customers", "country", "TEXT", "", FALSE, FALSE) >>

StubStore == [kind |-> "stub", columns |-> mock_schema]

SpiderStore(columns) == [kind |-> "spider", columns |-> columns]

----------------------------------------------------------------------------
(* Queries.  A query text is modelled by its lower-cased token list, the   *)
(* result of re.split(r"[^a-zA-Z0-9_]+", query.lower()).                   *)

Words == {"orders", "customers", "order_id", "customer_id", "order_date",
          "total_amount", "country", "nope", "order", "amount"}

\* Python `tok in s` (substring) on the words of the model
Substr(tok, s) ==
  \/ tok = s
  \/ tok = "order" /\ s \in {"orders", "order_id", "order_date"}
  \/ tok = "amount" /\ s = "total_amount"

\* the question of the run: "order amount"
UserQuery == <<"order", "amount">>

\* str.partition("."): the identifier split at its first dot
partition(col_name) ==
  IF \E t \in Words, c \in Words : col_name = t \o "." \o c
  THEN CHOOSE p \in Words \X Words : col_name = p[1] \o "." \o p[2]
  ELSE <<col_name, "">>

\* tokens of f"{table} {column}"
FallbackQuery(col_name) ==
  LET p == partition(col_name)
  IN  IF p[2] = "" THEN <<p[1]>> ELSE <<p[1], p[2]>>

\* score(col) of SpiderSnowSchemaStore.search_columns: (hits, len(name))
Hits(col, tokens) ==
  Cardinality({i \in 1..Len(tokens) :
                 Substr(tokens[i], col.name) \/ Substr(tokens[i], col.table)})

ScoreGreater(a, b, tokens) ==
  \/ Hits(a, tokens) > Hits(b, tokens)
  \/ Hits(a, tokens) = Hits(b, tokens) /\ Len(a.name) > Len(b.name)

\* sorted(filtered, key=score, reverse=True): stable, ties keep list order
RECURSIVE InsertRanked(_, _, _)
InsertRanked(sorted, c, tokens) ==
  IF sorted = <<>> THEN <<c>>
  ELSE IF ScoreGreater(c, Head(sorted), tokens)
       THEN <<c>> \o sorted
       ELSE <<Head(sorted)>> \o InsertRanked(Tail(sorted), c, tokens)

RECURSIVE Ranked(_, _)
Ranked(cols, tokens) ==
  IF cols = <<>> THEN <<>>
  ELSE InsertRanked(Ranked(SubSeq(cols, 1, Len(cols) - 1), tokens),
                    cols[Len(cols)], tokens)

\* [c for c in candidates if c.id not in exclude]
RECURSIVE NotExcluded(_, _)
NotExcluded(cols, exclude) ==
  IF cols = <<>> THEN <<>>
  ELSE IF id(Head(cols)) \notin exclude
       THEN <<Head(cols)>> \o NotExcluded(Tail(cols), exclude)
       ELSE NotExcluded(Tail(cols), exclude)

\* search_columns of the stub store and of the Spider-snow store
search_columns(store, query, exclude_cols, top_k) ==
  LET filtered == NotExcluded(store.columns, exclude_cols)
  IN  IF store.kind = "stub"
      THEN SlicePrefix(filtered, top_k)
      ELSE SlicePrefix(Ranked(filtered, query), top_k)

----------------------------------------------------------------------------
(* Probe service: StubDBIntrospectionService of src/infra/db.py *)

None == "None"

\* `"select" in sql.lower()` on the statements of the model
ContainsSelect(sql) ==
  sql \in {"select 1", "select * from orders", "select * from orders limit 100",
           "select * from missing", "delete from orders where id in (select 1)",
           "SELECT 1;"}

ProbeResult(status, row_count, sample_rows, error_type, error_message_short, summary) ==
  [status |-> status, row_count |-> row_count, sample_rows |-> sample_rows,
   error_type |-> error_type, error_message_short |-> error_message_short,
   summary |-> summary]

StubRows == << [order_id |-> 1, total_amount |-> 100],
               [order_id |-> 2, total_amount |-> 200] >>

\* StubDBIntrospectionService.exec_probe
exec_probe(sql, row_limit) ==
  IF ContainsSelect(sql)
  THEN ProbeResult("ok", Len(StubRows), SlicePrefix(StubRows, row_limit), None, None,
                   [message |-> "stubbed select", row_count |-> Len(StubRows)])
  ELSE ProbeResult("error", 0, <<>>, "syntax", "non-select probe rejected", <<>>)

DefaultRowLimit == 5

\* the statements a Probe Service is called with
ProbeStatements ==
  {"select 1", "select * from orders", "select * from orders limit 100",
   "select * from missing", "drop table orders", "delete from orders",
   "delete from orders where id in (select 1)"}

\* _extract_table: re.search(r"from\s+([^\s;]+)", sql), last dotted component
extract_table(sql) ==
  IF sql \in {"select * from orders", "select * from orders limit 100",
              "delete from orders", "delete from orders where id in (select 1)"}
  THEN "orders"
  ELSE IF sql = "select * from missing" THEN "missing"
  ELSE None

\* sample_rows of the DB_schema file of table orders
SpiderSampleRows == << [order_id |-> 1], [order_id |-> 2], [order_id |-> 3] >>

\* _load_table_meta: the JSON file of the table, nothing when there is none
NoTableMeta == [missing |-> TRUE]

load_table_meta(table) ==
  IF table = "orders"
  THEN [table_fullname |-> "S1.orders", sample_rows |-> SpiderSampleRows]
  ELSE NoTableMeta

\* SpiderSnowDBIntrospectionService.exec_probe
spider_exec_probe(sql, row_limit) ==
  LET table_key == extract_table(sql)
      table_meta == load_table_meta(table_key)
  IN  IF table_key = None
      THEN ProbeResult("error", 0, <<>>, "unsupported", "unsupported SQL pattern", <<>>)
      ELSE IF table_meta = NoTableMeta
      THEN ProbeResult("error", 0, <<>>, "missing_table",
                       "table " \o table_key \o " not found", <<>>)
      ELSE LET limited_rows == SlicePrefix(table_meta.sample_rows, row_limit)
           IN  ProbeResult("ok", Len(limited_rows), limited_rows, None, None,
                           [message |-> "sample_rows", table |-> table_meta.table_fullname])

\* _is_select: re.match(r"\s*select\b") and no forbidden word
\* (insert, update, delete, merge, alter, drop, truncate, create)
is_select(sql) ==
  sql \in {"select 1", "select * from orders", "select * from orders limit 100",
           "select * from missing"}

\* re.search(r"\blimit\s+\d+", sql)
HasLimit(sql) == sql = "select * from orders limit 100"

\* _enforce_limit: the statement as it is when it has a LIMIT, else with
\* LIMIT row_limit appended
enforce_limit(sql, row_limit) ==
  IF HasLimit(sql) THEN sql ELSE sql \o " LIMIT " \o ToString(row_limit)

\* rows of table orders in the warehouse
WarehouseRows ==
  << [order_id |-> 1], [order_id |-> 2], [order_id |-> 3], [order_id |-> 4] >>

\* what the warehouse answers to cur.execute(safe_sql): the result rows, or
\* an exception for a table it does not have
warehouse_execute(sql, safe_sql, row_limit) ==
  IF sql = "select 1" THEN [raised |-> FALSE, rows |-> <<[c1 |-> 1]>>]
  ELSE IF extract_table(sql) = "orders"
  THEN [raised |-> FALSE,
        rows |-> IF safe_sql = sql \o " LIMIT " \o ToString(row_limit)
                 THEN SlicePrefix(WarehouseRows, row_limit)
                 ELSE WarehouseRows]
  ELSE [raised |-> TRUE]

\* the environments of the Snowflake service: credential file, connector
\* package, connection
SnowflakeEnvs ==
  { [credentials |-> FALSE, connector |-> TRUE, connects |-> TRUE],
    [credentials |-> TRUE, connector |-> FALSE, connects |-> TRUE],
    [credentials |-> TRUE, connector |-> TRUE, connects |-> FALSE],
    [credentials |-> TRUE, connector |-> TRUE, connects |-> TRUE] }

\* SnowflakeProbeService.exec_probe
snowflake_exec_probe(sql, row_limit, env) ==
  IF ~env.credentials
  THEN ProbeResult("error", 0, <<>>, "credential", "missing snowflake credentials", <<>>)
  ELSE IF ~is_select(sql)
  THEN ProbeResult("error", 0, <<>>, "forbidden", "only SELECT probes allowed", <<>>)
  ELSE
    LET safe_sql == enforce_limit(sql, row_limit)
        answer == warehouse_execute(sql, safe_sql, row_limit)
    IN  IF ~env.connector
        THEN ProbeResult("error", 0, <<>>, "missing_dep",
                         "install snowflake-connector-python", <<>>)
        ELSE IF ~env.connects \/ answer.raised
        THEN ProbeResult("error", 0, <<>>, "db_error", "str(exc)", <<>>)
        ELSE LET sample_rows == SlicePrefix(answer.rows, row_limit)
             IN  ProbeResult("ok", Len(sample_rows), sample_rows, None, None,
                             [message |-> "snowflake probe",
                              table_hint |-> extract_table(sql)])

----------------------------------------------------------------------------
(* Gateway responses and their decoding: SchemaAgent._call_llm *)

\* a `type` value that is a JSON list: comparable with ==, not hashable
ListTypeValue == "[list]"

Hashable(v) == v # ListTypeValue

\* a JSON number or string as the value of a field
JsonNumber(n) == [json |-> "number", v |-> n]

JsonString(str) == [json |-> "string", v |-> str]

\* an element of the action array that is not a JSON object (e.g. 1)
ScalarItem == [py_type |-> "int"]

IsDict(item) == "py_type" \notin DOMAIN item

StopAction == [type |-> "stop_action"]

\* the action records the gateway of the model can emit
ActionAlphabet ==
  { [type |-> "retrieve_schema"],
    [type |-> "retrieve_schema", top_k |-> JsonString("abc")],
    [type |-> "explore_schema", sql |-> "select 1"],
    [type |-> "explore_schema", sql |-> "drop table orders"],
    [type |-> "verify_schema", sql |-> "drop table orders"],
    [type |-> "add_schema", columns |-> <<"orders.total_amount">>],
    [type |-> "add_schema", columns |-> <<"customers.country", "customers.country">>],
    StopAction,
    [type |-> "foo"],
    [type |-> ListTypeValue],
    [query |-> <<"country">>],
    ScalarItem }

\* raw response texts: unparseable text, a JSON object, a JSON scalar such
\* as null, a JSON array of at most `room` elements
Responses(room) ==
  { [kind |-> "text"], [kind |-> "object"], [kind |-> "scalar"] }
  \cup { [kind |-> "array", items |-> items] : items \in SeqUpTo(ActionAlphabet, room) }

\* json.loads(raw): raises on text that is not JSON
json_loads(raw) ==
  IF raw.kind = "text" THEN [raised |-> TRUE]
  ELSE IF raw.kind = "array" THEN [raised |-> FALSE, is_list |-> TRUE, value |-> raw.items]
  ELSE [raised |-> FALSE, is_list |-> FALSE]

\* a decoder without the isinstance check: a decoded JSON object is
\* returned as it is and the loop iterates over its keys, which are strings
call_llm_unchecked(raw) ==
  LET decoded == json_loads(raw)
  IN  IF decoded.raised THEN <<StopAction>>
      ELSE IF decoded.is_list THEN decoded.value
      ELSE <<ScalarItem>>

\* _call_llm: the decoded list, or a single stop_action when decoding
\* fails or the decoded value is not a list
call_llm(raw) ==
  LET decoded == json_loads(raw)
  IN  IF ~decoded.raised /\ decoded.is_list THEN decoded.value
      ELSE <<StopAction>>

----------------------------------------------------------------------------
(* LinkedSchema: an insertion-ordered dict table -> TableSchema, modelled   *)
(* as the sequence of its values.                                           *)

TableSchema(t, cols) == [table |-> t, columns |-> cols]

HasTable(ls, t) == \E i \in 1..Len(ls) : ls[i].table = t

TableIndex(ls, t) == CHOOSE i \in 1..Len(ls) : ls[i].table = t

\* a setdefault that makes a new entry whether or not the table has one
SetDefaultFresh(ls, t) == Append(ls, TableSchema(t, <<>>))

\* dict.setdefault(col.table, TableSchema(table=col.table))
SetDefault(ls, t) == IF HasTable(ls, t) THEN ls ELSE Append(ls, TableSchema(t, <<>>))

\* the ids of the columns linked under every table
LinkedIds(ls) == UNION {{id(c) : c \in Range(ls[i].columns)} : i \in 1..Len(ls)}

\* one iteration of build_schema_from_columns: append unconditionally
SeedColumn(ls, col) ==
  LET ls2 == SetDefault(ls, col.table)
      i == TableIndex(ls2, col.table)
  IN  [ls2 EXCEPT ![i].columns = Append(@, col)]

RECURSIVE build_schema_from_columns(_)
build_schema_from_columns(columns) ==
  IF columns = <<>> THEN <<>>
  ELSE SeedColumn(build_schema_from_columns(SubSeq(columns, 1, Len(columns) - 1)),
                  columns[Len(columns)])

\* a merge that overwrites the table's column list with the new column
MergeColumnReplacing(ls, col) ==
  LET ls2 == SetDefault(ls, col.table)
      i == TableIndex(ls2, col.table)
  IN  [ls2 EXCEPT ![i].columns = <<col>>]

\* one iteration of _merge_schema: append if no column of the table has the id
MergeColumn(ls, col) ==
  LET ls2 == SetDefault(ls, col.table)
      i == TableIndex(ls2, col.table)
      existing_cols == {id(c) : c \in Range(ls2[i].columns)}
  IN  IF id(col) \notin existing_cols
      THEN [ls2 EXCEPT ![i].columns = Append(@, col)]
      ELSE ls2

\* a merge that links nothing
merge_schema_dropped(ls, cols_to_add) == ls

RECURSIVE merge_schema(_, _)
merge_schema(ls, cols_to_add) ==
  IF cols_to_add = <<>> THEN ls
  ELSE merge_schema(MergeColumn(ls, Head(cols_to_add)), Tail(cols_to_add))

----------------------------------------------------------------------------
(* Retrieval cache: an insertion-ordered dict key -> column list, modelled  *)
(* as the sequence of its items.                                            *)

\* a key that names the step only
CacheKeyStepOnly(step, cache) == "step-" \o ToString(step)

\* f"step-{state.step}-{len(state.retrieve_cache)}"
CacheKey(step, cache) == "step-" \o ToString(step) \o "-" \o ToString(Len(cache))

\* state.retrieve_cache[cache_key] = cols
CachePut(cache, key, cols) ==
  IF \E i \in 1..Len(cache) : cache[i].key = key
  THEN [i \in 1..Len(cache) |->
          IF cache[i].key = key THEN [key |-> key, cols |-> cols] ELSE cache[i]]
  ELSE Append(cache, [key |-> key, cols |-> cols])

\* [c for cols in state.retrieve_cache.values() for c in cols]
RECURSIVE CacheValues(_)
CacheValues(cache) ==
  IF cache = <<>> THEN <<>> ELSE Head(cache).cols \o CacheValues(Tail(cache))

\* a lookup that never finds an identifier in the cache
NeverInCacheIndex(cache_values, col_name) == FALSE

\* {c.id: c for c in cache_values}: the last descriptor with the id wins
InCacheIndex(cache_values, col_name) ==
  \E i \in 1..Len(cache_values) : id(cache_values[i]) = col_name

CacheIndex(cache_values, col_name) ==
  LET hits == {i \in 1..Len(cache_values) : id(cache_values[i]) = col_name}
  IN  cache_values[CHOOSE i \in hits : \A j \in hits : j <= i]

IndexCall(query, exclude, top_k) ==
  [svc |-> "index", query |-> query, exclude |-> exclude, top_k |-> top_k]

ProbeCall(sql) == [svc |-> "probe", sql |-> sql]

LLMCall == [svc |-> "llm"]

\* a resolution that gives up at the first identifier it cannot resolve
RECURSIVE resolve_columns_until_miss(_, _, _, _)
resolve_columns_until_miss(col_names, cache, seen, store) ==
  IF col_names = <<>> THEN [cols |-> <<>>, calls |-> <<>>]
  ELSE
    LET col_name == Head(col_names)
        cache_values == CacheValues(cache)
        rest == resolve_columns_until_miss(Tail(col_names), cache, seen, store)
    IN  IF InCacheIndex(cache_values, col_name)
        THEN [cols |-> <<CacheIndex(cache_values, col_name)>> \o rest.cols,
              calls |-> rest.calls]
        ELSE
          LET query == FallbackQuery(col_name)
              fetched == search_columns(store, query, seen, 1)
          IN  IF fetched = <<>>
              THEN [cols |-> <<>>, calls |-> <<IndexCall(query, seen, 1)>>]
              ELSE [cols |-> SlicePrefix(fetched, 1) \o rest.cols,
                    calls |-> <<IndexCall(query, seen, 1)>> \o rest.calls]

\* _resolve_columns: for every requested identifier the cached descriptor,
\* else the first result of a width-1 fallback retrieval, else nothing;
\* `calls` lists the fallback retrievals issued
RECURSIVE resolve_columns(_, _, _, _)
resolve_columns(col_names, cache, seen, store) ==
  IF col_names = <<>> THEN [cols |-> <<>>, calls |-> <<>>]
  ELSE
    LET col_name == Head(col_names)
        cache_values == CacheValues(cache)
        rest == resolve_columns(Tail(col_names), cache, seen, store)
    IN  IF InCacheIndex(cache_values, col_name)
        THEN [cols |-> <<CacheIndex(cache_values, col_name)>> \o rest.cols,
              calls |-> rest.calls]
        ELSE
          LET query == FallbackQuery(col_name)
              fetched == search_columns(store, query, seen, 1)
          IN  [cols |-> SlicePrefix(fetched, 1) \o rest.cols,
               calls |-> <<IndexCall(query, seen, 1)>> \o rest.calls]

----------------------------------------------------------------------------
(* SchemaAgent._dispatch_action.  The result carries the exception raised   *)
(* ("" when none), the Observation and the engine state after the action.   *)

FeedbackTypes == {"retrieve_schema", "explore_schema", "verify_schema"}

Outcome(err, obs, ls, seen, cache, calls) ==
  [err |-> err, obs |-> obs, linked_schema |-> ls, seen_columns |-> seen,
   retrieve_cache |-> cache, calls |-> calls]

\* a retrieval that also links what it fetched
DispatchRetrieveLinking(action, ls, seen, cache, step, cfg, store, user_query) ==
  LET query == Get(action, "query", user_query)
      raw_k == Get(action, "top_k", JsonNumber(cfg.retrieve_top_k))
  IN  IF raw_k.json # "number"
      THEN Outcome("ValueError", <<>>, ls, seen, cache, <<>>)
      ELSE
        LET top_k == raw_k.v
            cols == search_columns(store, query, seen, top_k)
            cache_key == CacheKey(step, cache)
        IN  Outcome("", [action |-> "retrieve_schema", query |-> query,
                         returned |-> Ids(cols)],
                    merge_schema(ls, cols), seen \cup Range(Ids(cols)),
                    CachePut(cache, cache_key, cols),
                    <<IndexCall(query, seen, top_k)>>)

\* a retrieval that asks the index without an exclusion set
DispatchRetrieveNoExclusion(action, ls, seen, cache, step, cfg, store, user_query) ==
  LET query == Get(action, "query", user_query)
      raw_k == Get(action, "top_k", JsonNumber(cfg.retrieve_top_k))
  IN  IF raw_k.json # "number"
      THEN Outcome("ValueError", <<>>, ls, seen, cache, <<>>)
      ELSE
        LET top_k == raw_k.v
            cols == search_columns(store, query, {}, top_k)
            cache_key == CacheKey(step, cache)
        IN  Outcome("", [action |-> "retrieve_schema", query |-> query,
                         returned |-> Ids(cols)],
                    ls, seen, CachePut(cache, cache_key, cols),
                    <<IndexCall(query, {}, top_k)>>)

\* retrieve_schema branch of _dispatch_action, lines 154-165
DispatchRetrieve(action, ls, seen, cache, step, cfg, store, user_query) ==
  LET query == Get(action, "query", user_query)
      raw_k == Get(action, "top_k", JsonNumber(cfg.retrieve_top_k))
  IN  IF raw_k.json # "number"
      THEN Outcome("ValueError", <<>>, ls, seen, cache, <<>>)
      ELSE
        LET top_k == raw_k.v
            cols == search_columns(store, query, seen, top_k)
            cache_key == CacheKey(step, cache)
        IN  Outcome("", [action |-> "retrieve_schema", query |-> query,
                         returned |-> Ids(cols)],
                    ls, seen, CachePut(cache, cache_key, cols),
                    <<IndexCall(query, seen, top_k)>>)

\* explore_schema branch of _dispatch_action, lines 167-170
DispatchExplore(action, ls, seen, cache) ==
  LET sql == Get(action, "sql", "")
      probe == exec_probe(sql, DefaultRowLimit)
  IN  Outcome("", [action |-> "explore_schema", status |-> probe.status,
                   summary |-> probe.summary],
              ls, seen, cache, <<ProbeCall(sql)>>)

\* verify_schema branch of _dispatch_action, lines 172-175
DispatchVerify(action, ls, seen, cache) ==
  LET sql == Get(action, "sql", "")
      probe == exec_probe(sql, DefaultRowLimit)
  IN  Outcome("", [action |-> "verify_schema", status |-> probe.status,
                   error |-> probe.error_type, message |-> probe.error_message_short],
              ls, seen, cache, <<ProbeCall(sql)>>)

\* an add_schema that links the resolved columns without marking them seen
DispatchAddUnseen(action, ls, seen, cache, store) ==
  LET resolved == resolve_columns(Get(action, "columns", <<>>), cache, seen, store)
      cols_to_add == resolved.cols
  IN  Outcome("", [action |-> "add_schema", added |-> Ids(cols_to_add)],
              merge_schema(ls, cols_to_add), seen, cache, resolved.calls)

\* add_schema branch of _dispatch_action, lines 177-182
DispatchAdd(action, ls, seen, cache, store) ==
  LET resolved == resolve_columns(Get(action, "columns", <<>>), cache, seen, store)
      cols_to_add == resolved.cols
  IN  Outcome("", [action |-> "add_schema", added |-> Ids(cols_to_add)],
              merge_schema(ls, cols_to_add),
              seen \cup Range(Ids(cols_to_add)), cache, resolved.calls)

\* a dispatch that forwards probes whatever the toggles say
dispatch_action_untoggled(action, ls, seen, cache, step, cfg, store, user_query) ==
  IF ~IsDict(action) THEN Outcome("AttributeError", <<>>, ls, seen, cache, <<>>)
  ELSE
    LET action_type == Get(action, "type", None)
    IN  IF action_type = "retrieve_schema"
          THEN DispatchRetrieve(action, ls, seen, cache, step, cfg, store, user_query)
        ELSE IF action_type = "explore_schema"
          THEN DispatchExplore(action, ls, seen, cache)
        ELSE IF action_type = "verify_schema"
          THEN DispatchVerify(action, ls, seen, cache)
        ELSE IF action_type = "add_schema"
          THEN DispatchAdd(action, ls, seen, cache, store)
        ELSE IF action_type = "stop_action"
          THEN Outcome("", [action |-> "stop_action"], ls, seen, cache, <<>>)
        ELSE Outcome("", [action |-> "unknown", detail |-> action], ls, seen, cache, <<>>)

dispatch_action(action, ls, seen, cache, step, cfg, store, user_query) ==
  IF ~IsDict(action) THEN Outcome("AttributeError", <<>>, ls, seen, cache, <<>>)
  ELSE
    LET action_type == Get(action, "type", None)
    IN  IF action_type = "retrieve_schema"
          THEN DispatchRetrieve(action, ls, seen, cache, step, cfg, store, user_query)
        ELSE IF action_type = "explore_schema" /\ cfg.enable_explore_schema
          THEN DispatchExplore(action, ls, seen, cache)
        ELSE IF action_type = "verify_schema" /\ cfg.enable_verify_schema
          THEN DispatchVerify(action, ls, seen, cache)
        ELSE IF action_type = "add_schema"
          THEN DispatchAdd(action, ls, seen, cache, store)
        ELSE IF action_type = "stop_action"
          THEN Outcome("", [action |-> "stop_action"], ls, seen, cache, <<>>)
        ELSE Outcome("", [action |-> "unknown", detail |-> action], ls, seen, cache, <<>>)

\* run, line 130: action["type"] in {...}; raises on a missing key and on
\* an unhashable value
TypeLookupError(action) ==
  IF "type" \notin DOMAIN action THEN "KeyError"
  ELSE IF ~Hashable(action.type) THEN "TypeError"
  ELSE ""

\* a counter that takes retrievals alone for feedback
IsFeedbackRetrieveOnly(action) == action.type = "retrieve_schema"

IsFeedback(action) == action.type \in FeedbackTypes

\* a stop test that looks at the last action only
HasStopLastOnly(acts) == acts # <<>> /\ acts[Len(acts)].type = "stop_action"

\* any(action["type"] == "stop_action" for action in actions)
HasStop(acts) == \E i \in 1..Len(acts) : acts[i].type = "stop_action"

----------------------------------------------------------------------------
(* Prompt and serialization *)

\* _build_prompt: question, database, tables, at most 5 columns per linked
\* table, and the last two trace steps
build_prompt(user_query, db_id, table_list, ls, tr) ==
  [user_query |-> user_query, db_id |-> db_id, table_list |-> table_list,
   schema_summary |->
     [i \in 1..Len(ls) |->
        [table |-> ls[i].table,
         columns |-> LET cols == SlicePrefix(ls[i].columns, 5)
                     IN  [j \in 1..Len(cols) |->
                            [name |-> cols[j].name, type |-> cols[j].type]]]],
   trace_text |->
     LET trace_tail == SliceTail(tr, 2)
     IN  [i \in 1..Len(trace_tail) |->
            [step |-> trace_tail[i].step, actions |-> trace_tail[i].llm_actions,
             observations |-> trace_tail[i].observations]]]

SerializeColumn(c) ==
  [name |-> c.name, type |-> c.type,
   role |-> IF c.is_pk THEN "pk" ELSE IF c.is_fk THEN "fk" ELSE "col",
   description |-> c.description,
   sample_values |-> SlicePrefix(c.sample_values, 3)]

\* _serialize_linked_schema
serialize_linked_schema(ls) ==
  [i \in 1..Len(ls) |->
     [table |-> ls[i].table,
      columns |-> [j \in 1..Len(ls[i].columns) |-> SerializeColumn(ls[i].columns[j])]]]

\* a serialization that keeps the latest step only
serialize_trace_latest(tr) ==
  [i \in 1..Min(Len(tr), 1) |->
     [step |-> tr[Len(tr)].step, llm_actions |-> tr[Len(tr)].llm_actions,
      observations |-> tr[Len(tr)].observations, forced_stop |-> tr[Len(tr)].forced_stop]]

\* _serialize_trace: a new dict per step holding the flag's value at this moment
serialize_trace(tr) ==
  [i \in 1..Len(tr) |->
     [step |-> tr[i].step, llm_actions |-> tr[i].llm_actions,
      observations |-> tr[i].observations, forced_stop |-> tr[i].forced_stop]]

\* a trace step that files the observations last first
TraceStepReversed(step, llm_actions, observations) ==
  [step |-> step, llm_actions |-> llm_actions,
   observations |-> [i \in 1..Len(observations) |->
                       observations[Len(observations) + 1 - i]],
   forced_stop |-> FALSE]

TraceStep(step, llm_actions, observations) ==
  [step |-> step, llm_actions |-> llm_actions, observations |-> observations,
   forced_stop |-> FALSE]

WarningObservation ==
  [warning |-> "no_feedback_action",
   detail |-> "Add retrieve_schema/explore_schema/verify_schema"]

----------------------------------------------------------------------------
(* State of one run of SchemaAgent.run *)

VARIABLES
  config,            \* SchemaAgentConfig of the agent
  store,             \* the vector store the agent is wired to
  pc,                \* position of the run in SchemaAgent.run
  linked_schema,     \* state.linked_schema
  seen_columns,      \* state.seen_columns
  retrieve_cache,    \* state.retrieve_cache
  trace,             \* state.trace
  step,              \* state.step
  actions,           \* the action list of the step being executed
  observations,      \* the observations collected in the step so far
  feedback_actions,  \* the feedback-action counter of the step
  cursor,            \* index in `actions` of the next action to dispatch
  prompt,            \* the last prompt sent to the gateway
  response,          \* the raw text the gateway returned for it
  ctx,               \* ctx.schema_state, the shared request context
  calls,             \* log of the gateway, index and probe calls made
  error,             \* the exception that ended the run, "" if none
  other,             \* a second run in progress at the same time, if any
  probe,             \* the last direct call of a Probe Service and its result
  pipeline           \* the Orchestrator.run call the engine run is part of, if any

vars == <<config, store, pc, linked_schema, seen_columns, retrieve_cache, trace,
          step, actions, observations, feedback_actions, cursor, prompt,
          response, ctx, calls, error, other, probe, pipeline>>

engine == <<linked_schema, seen_columns, retrieve_cache, trace, step>>

locals == <<actions, observations, feedback_actions, cursor>>

DbId == "sales"

TableList == <<"customers", "orders">>

\* no second run
NoRun == [pc |-> "none"]

\* no direct probe call made
NoProbe == [service |-> "none"]

\* the run is not part of a pipeline request
NoRequest == [stage |-> "none"]

\* SchemaAgentConfig(...)
SchemaAgentConfig(top_m, top_k, steps, min_feedback, verify, explore) ==
  [initial_top_m |-> top_m, retrieve_top_k |-> top_k, max_steps |-> steps,
   min_feedback_actions_per_step |-> min_feedback,
   enable_verify_schema |-> verify, enable_explore_schema |-> explore]

\* the agents explored, each with every step budget: the stub store with
\* the default configuration, with a narrow seed, with a higher feedback
\* floor and verify_schema disabled, with explore_schema disabled; the
\* Spider-snow store over each of its column lists
Setups ==
  UNION { { <<SchemaAgentConfig(80, 5, n, 1, TRUE, TRUE), StubStore>>,
            <<SchemaAgentConfig(2, 5, n, 1, TRUE, TRUE), StubStore>>,
            <<SchemaAgentConfig(2, 5, n, 2, FALSE, TRUE), StubStore>>,
            <<SchemaAgentConfig(2, 5, n, 1, TRUE, FALSE), StubStore>>,
            <<SchemaAgentConfig(2, 5, n, 1, TRUE, TRUE), SpiderStore(SpiderColumns)>>,
            <<SchemaAgentConfig(2, 5, n, 1, TRUE, TRUE), SpiderStore(SpiderColumnsTwoSchemas)>>,
            <<SchemaAgentConfig(80, 5, n, 1, TRUE, TRUE), SpiderStore(SpiderNoColumns)>> }
          : n \in 0..MaxSteps }

Init ==
  /\ \E setup \in Setups : config = setup[1] /\ store = setup[2]
  /\ pc = "start"
  /\ linked_schema = <<>>
  /\ seen_columns = {}
  /\ retrieve_cache = <<>>
  /\ trace = <<>>
  /\ step = 0
  /\ actions = <<>>
  /\ observations = <<>>
  /\ feedback_actions = 0
  /\ cursor = 1
  /\ prompt = <<>>
  /\ response = [kind |-> "none"]
  /\ ctx = <<>>
  /\ calls = <<>>
  /\ error = ""
  /\ other = NoRun
  /\ probe = NoProbe
  /\ pipeline = NoRequest

\* number of actions the steps recorded so far carried
RECURSIVE Emitted(_)
Emitted(tr) == IF tr = <<>> THEN 0 ELSE Len(Head(tr).llm_actions) + Emitted(Tail(tr))

\* an off-by-one loop test: one step too many
LoopConditionInclusive(s, cfg) == s <= cfg.max_steps

\* run, line 120: while state.step < self.config.max_steps
LoopCondition(s, cfg) == s < cfg.max_steps

\* a flag set whenever a trace exists, natural stop or not
BudgetExhaustedAnyExit(s, cfg, tr) == tr # <<>>

\* run, line 145: state.step >= self.config.max_steps and state.trace
BudgetExhausted(s, cfg, tr) == s >= cfg.max_steps /\ tr # <<>>

\* a seeding retrieval of the retrieval width instead of the seeding width
InitialColsRetrieveWidth == search_columns(store, UserQuery, {}, config.retrieve_top_k)

\* the columns of the seeding retrieval
InitialCols == search_columns(store, UserQuery, {}, config.initial_top_m)

\* run, lines 105-118: seeding retrieval, fresh state, first context write
Seed ==
  /\ pc = "start"
  /\ linked_schema' = build_schema_from_columns(InitialCols)
  /\ seen_columns' = Range(Ids(InitialCols))
  /\ retrieve_cache' = <<>>
  /\ trace' = <<>>
  /\ step' = 0
  /\ ctx' = [table_list |-> TableList,
             linked_schema |-> serialize_linked_schema(linked_schema')]
  /\ calls' = Append(calls, IndexCall(UserQuery, {}, config.initial_top_m))
  /\ pc' = "loop"
  /\ UNCHANGED <<config, store, other, probe, pipeline, locals, prompt, response, error>>

\* run, lines 120-125: loop test, prompt, gateway call, decoding; the
\* gateway answers with one of `responses`
CallLLMWith(responses) ==
  /\ pc = "loop"
  /\ LoopCondition(step, config)
  /\ \E raw \in responses :
       /\ response' = raw
       /\ actions' = call_llm(raw)
  /\ prompt' = build_prompt(UserQuery, DbId, TableList, linked_schema, trace)
  /\ observations' = <<>>
  /\ feedback_actions' = 0
  /\ cursor' = 1
  /\ calls' = Append(calls, LLMCall)
  /\ pc' = "dispatch"
  /\ UNCHANGED <<config, store, other, probe, pipeline, engine, ctx, error>>

CallLLM == CallLLMWith(Responses(Max(MaxEmitted - Emitted(trace), 0)))

\* a for loop that breaks at a stop_action: the actions after it are skipped
DispatchUntilStop ==
  /\ pc = "dispatch"
  /\ cursor <= Len(actions)
  /\ LET action == actions[cursor]
         out == dispatch_action(action, linked_schema, seen_columns, retrieve_cache,
                                step, config, store, UserQuery)
         err == IF out.err # "" THEN out.err ELSE TypeLookupError(action)
     IN  /\ linked_schema' = out.linked_schema
         /\ seen_columns' = out.seen_columns
         /\ retrieve_cache' = out.retrieve_cache
         /\ calls' = calls \o out.calls
         /\ observations' = IF out.err = "" THEN Append(observations, out.obs)
                            ELSE observations
         /\ error' = err
         /\ IF err # ""
            THEN /\ pc' = "raised"
                 /\ UNCHANGED <<feedback_actions, cursor>>
            ELSE /\ pc' = "dispatch"
                 /\ feedback_actions' = feedback_actions + (IF IsFeedback(action) THEN 1 ELSE 0)
                 /\ cursor' = IF action.type = "stop_action" THEN Len(actions) + 1
                              ELSE cursor + 1
  /\ UNCHANGED <<config, store, other, probe, pipeline, trace, step, actions, prompt, response, ctx>>

\* run, lines 126-131: one iteration of the for loop over the actions
Dispatch ==
  /\ pc = "dispatch"
  /\ cursor <= Len(actions)
  /\ LET action == actions[cursor]
         out == dispatch_action(action, linked_schema, seen_columns, retrieve_cache,
                                step, config, store, UserQuery)
         err == IF out.err # "" THEN out.err ELSE TypeLookupError(action)
     IN  /\ linked_schema' = out.linked_schema
         /\ seen_columns' = out.seen_columns
         /\ retrieve_cache' = out.retrieve_cache
         /\ calls' = calls \o out.calls
         /\ observations' = IF out.err = "" THEN Append(observations, out.obs)
                            ELSE observations
         /\ error' = err
         /\ IF err # ""
            THEN /\ pc' = "raised"
                 /\ UNCHANGED <<feedback_actions, cursor>>
            ELSE /\ pc' = "dispatch"
                 /\ feedback_actions' = feedback_actions + (IF IsFeedback(action) THEN 1 ELSE 0)
                 /\ cursor' = cursor + 1
  /\ UNCHANGED <<config, store, other, probe, pipeline, trace, step, actions, prompt, response, ctx>>

\* run, lines 133-143: warning, trace append, context write, stop test
EndStep ==
  /\ pc = "dispatch"
  /\ cursor > Len(actions)
  /\ LET obs == IF feedback_actions < config.min_feedback_actions_per_step
                THEN Append(observations, WarningObservation)
                ELSE observations
     IN  /\ observations' = obs
         /\ trace' = Append(trace, TraceStep(step, actions, obs))
  /\ ctx' = [k \in DOMAIN ctx \cup {"linking_trace"} |->
               IF k = "linking_trace" THEN serialize_trace(trace')
               ELSE IF k = "linked_schema" THEN serialize_linked_schema(linked_schema)
               ELSE ctx[k]]
  /\ IF HasStop(actions)
     THEN pc' = "after_loop" /\ step' = step
     ELSE pc' = "loop" /\ step' = step + 1
  /\ UNCHANGED <<config, store, other, probe, pipeline, linked_schema, seen_columns, retrieve_cache,
                 actions, feedback_actions, cursor, prompt, response, calls, error>>

\* run, line 120: the loop test fails
LoopExit ==
  /\ pc = "loop"
  /\ ~LoopCondition(step, config)
  /\ pc' = "after_loop"
  /\ UNCHANGED <<config, store, other, probe, pipeline, engine, locals, prompt, response, ctx, calls, error>>

\* the flag set on the first step instead of the last
MarkFirst(tr) == [tr EXCEPT ![1].forced_stop = TRUE]

\* state.trace[-1].forced_stop = True
MarkLast(tr) == [tr EXCEPT ![Len(tr)].forced_stop = TRUE]

\* run, lines 145-147: mark the last step when the budget ran out, return ctx
Finish ==
  /\ pc = "after_loop"
  /\ trace' = IF BudgetExhausted(step, config, trace) THEN MarkLast(trace) ELSE trace
  /\ pc' = "done"
  /\ UNCHANGED <<config, store, other, probe, pipeline, linked_schema, seen_columns, retrieve_cache, step,
                 locals, prompt, response, ctx, calls, error>>

Next == Seed \/ CallLLM \/ Dispatch \/ EndStep \/ LoopExit \/ Finish

Spec == Init /\ [][Next]_vars

----------------------------------------------------------------------------
(* Longer runs against a gateway that speaks the closed vocabulary only:    *)
(* three steps, up to MaxScripted actions over the run.                     *)

ScriptedAlphabet ==
  { [type |-> "retrieve_schema"],
    [type |-> "verify_schema", sql |-> "select 1"],
    [type |-> "add_schema", columns |-> <<"orders.total_amount">>],
    [type |-> "add_schema", columns |-> <<"nope", "customers.country">>],
    StopAction }

ScriptedResponses(room) ==
  { [kind |-> "array", items |-> items] : items \in SeqUpTo(ScriptedAlphabet, room) }

\* max_steps = 3 and min_feedback_actions_per_step = 1 over the stub store,
\* seeded fully, with two and with three columns, and over the Spider-snow
\* store with and without columns
ScriptedSetups ==
  { <<SchemaAgentConfig(80, 5, 3, 1, TRUE, TRUE), StubStore>>,
    <<SchemaAgentConfig(2, 5, 3, 1, TRUE, TRUE), StubStore>>,
    <<SchemaAgentConfig(3, 5, 3, 1, TRUE, TRUE), StubStore>>,
    <<SchemaAgentConfig(2, 5, 3, 1, TRUE, TRUE), SpiderStore(SpiderColumns)>>,
    <<SchemaAgentConfig(80, 5, 3, 1, TRUE, TRUE), SpiderStore(SpiderNoColumns)>> }

InitScripted ==
  /\ \E setup \in ScriptedSetups : config = setup[1] /\ store = setup[2]
  /\ pc = "start"
  /\ linked_schema = <<>>
  /\ seen_columns = {}
  /\ retrieve_cache = <<>>
  /\ trace = <<>>
  /\ step = 0
  /\ actions = <<>>
  /\ observations = <<>>
  /\ feedback_actions = 0
  /\ cursor = 1
  /\ prompt = <<>>
  /\ response = [kind |-> "none"]
  /\ ctx = <<>>
  /\ calls = <<>>
  /\ error = ""
  /\ other = NoRun
  /\ probe = NoProbe
  /\ pipeline = NoRequest

CallLLMScripted == CallLLMWith(ScriptedResponses(Max(MaxScripted - Emitted(trace), 0)))

NextScripted == Seed \/ CallLLMScripted \/ Dispatch \/ EndStep \/ LoopExit \/ Finish

SpecScripted == InitScripted /\ [][NextScripted]_vars

----------------------------------------------------------------------------
(* Two runs at once.  The first run is the one above, on the variables of   *)
(* the module; the second is held in `other` as a record of the same        *)
(* fields: the state object and the locals that its call of run creates,    *)
(* and the attributes of the agent it is called on.  The two runs take      *)
(* their steps in any order.                                                *)

PairAlphabet ==
  { [type |-> "retrieve_schema"],
    [type |-> "add_schema", columns |-> <<"orders.total_amount">>],
    StopAction }

PairResponses(room) ==
  { [kind |-> "array", items |-> items] : items \in SeqUpTo(PairAlphabet, room) }

\* the agents a run may be called on
PairAgents ==
  { <<SchemaAgentConfig(2, 5, 2, 1, TRUE, TRUE), StubStore>>,
    <<SchemaAgentConfig(2, 5, 1, 1, TRUE, TRUE), SpiderStore(SpiderColumns)>> }

\* a call of run that has not started yet, on an agent with these attributes
RunInit(cfg, st) ==
  [config |-> cfg, store |-> st, pc |-> "start", linked_schema |-> <<>>,
   seen_columns |-> {}, retrieve_cache |-> <<>>, trace |-> <<>>, step |-> 0,
   actions |-> <<>>, observations |-> <<>>, feedback_actions |-> 0, cursor |-> 1,
   prompt |-> <<>>, response |-> [kind |-> "none"], ctx |-> <<>>, calls |-> <<>>,
   error |-> ""]

\* the first run is called on the stub agent; the second on the same agent
\* (or one configured alike) or on the other agent
InitPair ==
  /\ config = SchemaAgentConfig(2, 5, 2, 1, TRUE, TRUE) /\ store = StubStore
  /\ pc = "start"
  /\ linked_schema = <<>>
  /\ seen_columns = {}
  /\ retrieve_cache = <<>>
  /\ trace = <<>>
  /\ step = 0
  /\ actions = <<>>
  /\ observations = <<>>
  /\ feedback_actions = 0
  /\ cursor = 1
  /\ prompt = <<>>
  /\ response = [kind |-> "none"]
  /\ ctx = <<>>
  /\ calls = <<>>
  /\ error = ""
  /\ \E agent \in PairAgents : other = RunInit(agent[1], agent[2])
  /\ probe = NoProbe
  /\ pipeline = NoRequest

\* a retrieval cache kept in one place for both runs
SharedCache(r, first_cache) == first_cache

\* run, line 112: retrieve_cache={} in the state object built by this call
RunCache(r, first_cache) == r.retrieve_cache

\* run, lines 105-118, on the record of a run
RunSeed(r) ==
  LET initial_cols == search_columns(r.store, UserQuery, {}, r.config.initial_top_m)
      seeded == build_schema_from_columns(initial_cols)
  IN  [r EXCEPT !.linked_schema = seeded,
                !.seen_columns = Range(Ids(initial_cols)),
                !.retrieve_cache = <<>>,
                !.trace = <<>>,
                !.step = 0,
                !.ctx = [table_list |-> TableList,
                         linked_schema |-> serialize_linked_schema(seeded)],
                !.calls = Append(@, IndexCall(UserQuery, {}, r.config.initial_top_m)),
                !.pc = "loop"]

\* run, lines 120-125
RunCallLLM(r, raw) ==
  [r EXCEPT !.response = raw,
            !.actions = call_llm(raw),
            !.prompt = build_prompt(UserQuery, DbId, TableList, r.linked_schema, r.trace),
            !.observations = <<>>,
            !.feedback_actions = 0,
            !.cursor = 1,
            !.calls = Append(@, LLMCall),
            !.pc = "dispatch"]

\* run, lines 126-131
RunDispatch(r, first_cache) ==
  LET action == r.actions[r.cursor]
      out == dispatch_action(action, r.linked_schema, r.seen_columns,
                             RunCache(r, first_cache), r.step, r.config, r.store,
                             UserQuery)
      err == IF out.err # "" THEN out.err ELSE TypeLookupError(action)
  IN  [r EXCEPT !.linked_schema = out.linked_schema,
                !.seen_columns = out.seen_columns,
                !.retrieve_cache = out.retrieve_cache,
                !.calls = @ \o out.calls,
                !.observations = IF out.err = "" THEN Append(@, out.obs) ELSE @,
                !.error = err,
                !.pc = IF err # "" THEN "raised" ELSE "dispatch",
                !.feedback_actions =
                   IF err # "" THEN @ ELSE @ + (IF IsFeedback(action) THEN 1 ELSE 0),
                !.cursor = IF err # "" THEN @ ELSE @ + 1]

\* run, lines 133-143
RunEndStep(r) ==
  LET obs == IF r.feedback_actions < r.config.min_feedback_actions_per_step
             THEN Append(r.observations, WarningObservation)
             ELSE r.observations
      tr == Append(r.trace, TraceStep(r.step, r.actions, obs))
  IN  [r EXCEPT !.observations = obs,
                !.trace = tr,
                !.ctx = [k \in DOMAIN r.ctx \cup {"linking_trace"} |->
                           IF k = "linking_trace" THEN serialize_trace(tr)
                           ELSE IF k = "linked_schema"
                                THEN serialize_linked_schema(r.linked_schema)
                                ELSE r.ctx[k]],
                !.pc = IF HasStop(r.actions) THEN "after_loop" ELSE "loop",
                !.step = IF HasStop(r.actions) THEN @ ELSE @ + 1]

\* run, lines 145-147
RunFinish(r) ==
  [r EXCEPT !.trace = IF BudgetExhausted(r.step, r.config, r.trace)
                      THEN MarkLast(r.trace) ELSE r.trace,
            !.pc = "done"]

CallLLMPair == CallLLMWith(PairResponses(Max(MaxEmitted - Emitted(trace), 0)))

OtherSeed ==
  /\ other.pc = "start"
  /\ other' = RunSeed(other)
  /\ UNCHANGED <<config, store, pc, engine, locals, prompt, response, ctx, calls, error,
                 probe, pipeline>>

OtherCallLLM ==
  /\ other.pc = "loop"
  /\ LoopCondition(other.step, other.config)
  /\ \E raw \in PairResponses(Max(MaxEmitted - Emitted(other.trace), 0)) :
       other' = RunCallLLM(other, raw)
  /\ UNCHANGED <<config, store, pc, engine, locals, prompt, response, ctx, calls, error,
                 probe, pipeline>>

OtherDispatch ==
  /\ other.pc = "dispatch"
  /\ other.cursor <= Len(other.actions)
  /\ other' = RunDispatch(other, retrieve_cache)
  /\ UNCHANGED <<config, store, pc, engine, locals, prompt, response, ctx, calls, error,
                 probe, pipeline>>

OtherEndStep ==
  /\ other.pc = "dispatch"
  /\ other.cursor > Len(other.actions)
  /\ other' = RunEndStep(other)
  /\ UNCHANGED <<config, store, pc, engine, locals, prompt, response, ctx, calls, error,
                 probe, pipeline>>

OtherLoopExit ==
  /\ other.pc = "loop"
  /\ ~LoopCondition(other.step, other.config)
  /\ other' = [other EXCEPT !.pc = "after_loop"]
  /\ UNCHANGED <<config, store, pc, engine, locals, prompt, response, ctx, calls, error,
                 probe, pipeline>>

OtherFinish ==
  /\ other.pc = "after_loop"
  /\ other' = RunFinish(other)
  /\ UNCHANGED <<config, store, pc, engine, locals, prompt, response, ctx, calls, error,
                 probe, pipeline>>

NextPair ==
  \/ Seed \/ CallLLMPair \/ Dispatch \/ EndStep \/ LoopExit \/ Finish
  \/ OtherSeed \/ OtherCallLLM \/ OtherDispatch \/ OtherEndStep \/ OtherLoopExit
  \/ OtherFinish

SpecPair == InitPair /\ [][NextPair]_vars

----------------------------------------------------------------------------
(* Direct calls of exec_probe on each Probe Service, with every statement   *)
(* and every row limit up to MaxRowLimit.  No run is in progress.           *)

InitProbe ==
  /\ config = SchemaAgentConfig(80, 5, 0, 1, TRUE, TRUE) /\ store = StubStore
  /\ pc = "idle"
  /\ linked_schema = <<>>
  /\ seen_columns = {}
  /\ retrieve_cache = <<>>
  /\ trace = <<>>
  /\ step = 0
  /\ actions = <<>>
  /\ observations = <<>>
  /\ feedback_actions = 0
  /\ cursor = 1
  /\ prompt = <<>>
  /\ response = [kind |-> "none"]
  /\ ctx = <<>>
  /\ calls = <<>>
  /\ error = ""
  /\ other = NoRun
  /\ probe = NoProbe
  /\ pipeline = NoRequest

ProbeCalled(service, sql, row_limit, result) ==
  [service |-> service, sql |-> sql, row_limit |-> row_limit, result |-> result]

ExecProbeStub ==
  /\ \E sql \in ProbeStatements, row_limit \in 1..MaxRowLimit :
       probe' = ProbeCalled("stub", sql, row_limit, exec_probe(sql, row_limit))
  /\ UNCHANGED <<config, store, pc, engine, locals, prompt, response, ctx, calls, error,
                 other, pipeline>>

ExecProbeSpider ==
  /\ \E sql \in ProbeStatements, row_limit \in 1..MaxRowLimit :
       probe' = ProbeCalled("spider", sql, row_limit, spider_exec_probe(sql, row_limit))
  /\ UNCHANGED <<config, store, pc, engine, locals, prompt, response, ctx, calls, error,
                 other, pipeline>>

ExecProbeSnowflake ==
  /\ \E sql \in ProbeStatements, row_limit \in 1..MaxRowLimit, env \in SnowflakeEnvs :
       probe' = ProbeCalled("snowflake", sql, row_limit,
                            snowflake_exec_probe(sql, row_limit, env))
  /\ UNCHANGED <<config, store, pc, engine, locals, prompt, response, ctx, calls, error,
                 other, pipeline>>

NextProbe == ExecProbeStub \/ ExecProbeSpider \/ ExecProbeSnowflake

SpecProbe == InitProbe /\ [][NextProbe]_vars

----------------------------------------------------------------------------
(* The pipeline: Orchestrator.run of src/core/pipeline.py over the agents   *)
(* wired by build_orchestrator, one request per behaviour.  The schema      *)
(* engine run it starts is the run modelled above.                          *)

\* SQLGeneratorAgent(max_candidates=2)
MaxCandidates == 2

\* VerifierAgent(max_rows=5)
VerifierMaxRows == 5

\* build_orchestrator, stub branch: the one-database catalog
StubCatalog ==
  << [db_id |-> "sales", short_desc |-> "stub database",
      example_tables |-> <<"orders", "customers">>] >>

\* a catalog of two databases handed to Orchestrator(db_catalog=...)
TwoDbCatalog ==
  << [db_id |-> "archive", short_desc |-> "old orders",
      example_tables |-> <<"orders">>],
     [db_id |-> "sales", short_desc |-> "order amounts",
      example_tables |-> <<"orders", "customers">>] >>

\* Python `token in desc` (substring) on the descriptions of the model
TokenInDesc(token, desc) ==
  \/ desc = "old orders" /\ token \in {"order", "orders", "old"}
  \/ desc = "order amounts" /\ token \in {"order", "amount", "amounts"}
  \/ desc = "stub database" /\ token \in {"stub", "database", "data"}
  \/ desc = "customer data" /\ token \in {"customer", "data"}

\* Python string order on the database ids of the model
DbIdGreater(a, b) ==
  <<a, b>> \in {<<"sales", "crm">>, <<"sales", "archive">>, <<"crm", "archive">>}

\* _select_db, line 47: the query tokens found in the description
Overlap(user_query, desc) ==
  Cardinality({ i \in 1..Len(user_query) : TokenInDesc(user_query[i], desc) })

\* (overlap, db_id) tuples compared as Python compares them
ScoreAbove(a, b) ==
  \/ a[1] > b[1]
  \/ a[1] = b[1] /\ DbIdGreater(a[2], b[2])

\* RouterAgent._select_db: the head of the scores sorted in reverse
select_db(user_query, db_catalog) ==
  IF db_catalog = <<>> THEN ""
  ELSE LET scores == { <<Overlap(user_query, db_catalog[i].short_desc),
                         db_catalog[i].db_id>> : i \in 1..Len(db_catalog) }
       IN  (CHOOSE s \in scores : \A t \in scores : t = s \/ ScoreAbove(s, t))[2]

\* the catalog entry of a database, {} if none
CatalogEntry(db_catalog, db_id) ==
  IF \E i \in 1..Len(db_catalog) : db_catalog[i].db_id = db_id
  THEN db_catalog[CHOOSE i \in 1..Len(db_catalog) : db_catalog[i].db_id = db_id]
  ELSE [example_tables |-> <<>>]

\* RouterAgent._draft_plan; no query of the model holds "sum"
draft_plan(user_query, db_meta) ==
  [task_type |-> "lookup", hint_tables |-> SlicePrefix(db_meta.example_tables, 3)]

\* RouterAgent.route
route(user_query, db_catalog) ==
  LET chosen_db == select_db(user_query, db_catalog)
  IN  [candidate_dbs |-> [i \in 1..Len(db_catalog) |-> db_catalog[i].db_id],
       chosen_db |-> chosen_db,
       high_level_plan |-> draft_plan(user_query, CatalogEntry(db_catalog, chosen_db))]

\* StubSchemaVectorStore.list_tables
list_tables(db_id) == IF db_id = DbId THEN TableList ELSE <<>>

\* Orchestrator._get_table_list
get_table_list(db_id, db_catalog) ==
  IF list_tables(db_id) # <<>> THEN list_tables(db_id)
  ELSE CatalogEntry(db_catalog, db_id).example_tables

\* EchoLLMClient.chat on a prompt of the schema engine
EchoActions == [kind |-> "array", items |-> <<StopAction>>]

\* EchoLLMClient.chat on any other prompt, as its lines
EchoSql == <<"SELECT 1;">>

\* the texts another gateway answers the SQL generator with, as their lines
SqlTexts ==
  { <<"SELECT 1;">>, <<>>, <<"  ", " select 1 ">>, <<"drop table orders">>,
    <<"drop table orders", "select * from orders", "select 1">> }

\* str.strip on the lines of the model
Strip(line) ==
  CASE line = "  " -> ""
    [] line = " select 1 " -> "select 1"
    [] OTHER -> line

NonEmpty(line) == line # ""

\* the non-blank lines of a text, stripped
StrippedLines(raw) == SelectSeq([i \in 1..Len(raw) |-> Strip(raw[i])], NonEmpty)

\* SQLGeneratorAgent.generate, lines 32-35
generate(raw) ==
  LET candidates == SlicePrefix(StrippedLines(raw), MaxCandidates)
  IN  [candidates |-> IF candidates = <<>> THEN <<"SELECT 1;">> ELSE candidates]

\* VerifierAgent._to_record
to_record(sql, result) ==
  [sql |-> sql, status |-> result.status, error_type |-> result.error_type,
   error_message |-> result.error_message_short, row_count |-> result.row_count,
   sample_rows |-> result.sample_rows]

\* a verifier that decides for the last successful candidate
verify_last_ok(candidates) ==
  LET results == [i \in 1..Len(candidates) |-> exec_probe(candidates[i], VerifierMaxRows)]
      records == [i \in 1..Len(candidates) |-> to_record(candidates[i], results[i])]
      oks == { i \in 1..Len(candidates) : results[i].status = "ok" }
      last == CHOOSE i \in oks : \A j \in oks : j <= i
  IN  [execution_state |->
         [probes |-> records,
          sample_rows |-> IF records = <<>> THEN None ELSE records[1].sample_rows],
       final_decision |->
         IF oks = {}
         THEN [sql |-> None, status |-> "failed", reason |-> "no successful candidate"]
         ELSE [sql |-> candidates[last], status |-> "ok",
               result_summary |-> results[last].summary]]

\* VerifierAgent.verify: the execution state and the final decision
verify(candidates) ==
  LET results == [i \in 1..Len(candidates) |-> exec_probe(candidates[i], VerifierMaxRows)]
      records == [i \in 1..Len(candidates) |-> to_record(candidates[i], results[i])]
      oks == { i \in 1..Len(candidates) : results[i].status = "ok" }
      first == CHOOSE i \in oks : \A j \in oks : i <= j
  IN  [execution_state |->
         [probes |-> records,
          sample_rows |-> IF records = <<>> THEN None ELSE records[1].sample_rows],
       final_decision |->
         IF oks = {}
         THEN [sql |-> None, status |-> "failed", reason |-> "no successful candidate"]
         ELSE [sql |-> candidates[first], status |-> "ok",
               result_summary |-> results[first].summary]]

\* the orchestrators built: the stub wiring of build_orchestrator, and the
\* same agents behind another gateway or over another catalog
Wirings ==
  { [llm |-> "echo", db_catalog |-> StubCatalog],
    [llm |-> "scripted", db_catalog |-> StubCatalog],
    [llm |-> "echo", db_catalog |-> TwoDbCatalog],
    [llm |-> "scripted", db_catalog |-> TwoDbCatalog] }

\* an orchestrator that has not been called yet
Built(wiring) ==
  [stage |-> "built", llm |-> wiring.llm, db_catalog |-> wiring.db_catalog,
   query_id |-> "", user_query |-> <<>>, router |-> <<>>, table_list |-> <<>>,
   stages |-> <<>>, engine_calls |-> 0, schema_state |-> <<>>,
   sql_generation_state |-> <<>>, execution_state |-> <<>>,
   final_decision |-> <<>>, closed |-> FALSE, saved |-> {}]

\* build_orchestrator, line 54: SchemaAgentConfig() over the stub store
InitPipeline ==
  /\ config = SchemaAgentConfig(80, 5, 8, 1, TRUE, TRUE) /\ store = StubStore
  /\ pc = "idle"
  /\ linked_schema = <<>>
  /\ seen_columns = {}
  /\ retrieve_cache = <<>>
  /\ trace = <<>>
  /\ step = 0
  /\ actions = <<>>
  /\ observations = <<>>
  /\ feedback_actions = 0
  /\ cursor = 1
  /\ prompt = <<>>
  /\ response = [kind |-> "none"]
  /\ ctx = <<>>
  /\ calls = <<>>
  /\ error = ""
  /\ other = NoRun
  /\ probe = NoProbe
  /\ \E wiring \in Wirings : pipeline = Built(wiring)

\* a pipeline that generates SQL before it links the schema
StageAfterGeneratorFirst(stage) ==
  CASE stage = "router" -> "sql_generator"
    [] stage = "sql_generator" -> "schema"
    [] stage = "schema" -> "verifier"
    [] stage = "verifier" -> "persistence"
    [] stage = "persistence" -> "returned"

\* Orchestrator.run, lines 50-72: the statement order of the stages
StageAfter(stage) ==
  CASE stage = "router" -> "schema"
    [] stage = "schema" -> "sql_generator"
    [] stage = "sql_generator" -> "verifier"
    [] stage = "verifier" -> "persistence"
    [] stage = "persistence" -> "returned"

\* run, lines 47-48: the context of the request
ReceiveRequest ==
  /\ pipeline.stage = "built"
  /\ \E query_id \in {"uuid-1", "uuid-2"} :
       pipeline' = [pipeline EXCEPT !.stage = "router", !.query_id = query_id,
                                    !.user_query = UserQuery]
  /\ UNCHANGED <<config, store, other, probe, pc, engine, locals, prompt, response, ctx, calls, error>>

\* run, lines 50-54: the Router and the table list
Route ==
  /\ pipeline.stage = "router"
  /\ LET router_output == route(pipeline.user_query, pipeline.db_catalog)
     IN  pipeline' = [pipeline EXCEPT
           !.router = router_output,
           !.table_list = get_table_list(router_output.chosen_db, pipeline.db_catalog),
           !.stages = Append(pipeline.stages, "router"),
           !.stage = StageAfter("router")]
  /\ UNCHANGED <<config, store, other, probe, pc, engine, locals, prompt, response, ctx, calls, error>>

\* run, line 56: the call of SchemaAgent.run
InvokeSchema ==
  /\ pipeline.stage = "schema"
  /\ pc = "idle"
  /\ pc' = "start"
  /\ pipeline' = [pipeline EXCEPT !.stage = "schema_running",
                                  !.stages = Append(pipeline.stages, "schema"),
                                  !.engine_calls = pipeline.engine_calls + 1]
  /\ UNCHANGED <<config, store, other, probe, engine, locals, prompt, response, ctx, calls, error>>

\* the gateway of the wiring answers the prompt of the schema engine
CallLLMPipeline ==
  /\ pipeline.stage = "schema_running"
  /\ CallLLMWith(IF pipeline.llm = "echo" THEN {EchoActions}
                 ELSE PairResponses(Max(MaxEmitted - Emitted(trace), 0)))

\* run, line 56: SchemaAgent.run returns the context
SchemaReturns ==
  /\ pipeline.stage = "schema_running"
  /\ pc = "done"
  /\ pipeline' = [pipeline EXCEPT !.stage = StageAfter("schema"),
                                  !.schema_state = ctx]
  /\ UNCHANGED <<config, store, other, probe, pc, engine, locals, prompt, response, ctx, calls, error>>

\* run, lines 63-64: the SQL generator
Generate ==
  /\ pipeline.stage = "sql_generator"
  /\ \E raw \in (IF pipeline.llm = "echo" THEN {EchoSql} ELSE SqlTexts) :
       pipeline' = [pipeline EXCEPT
         !.sql_generation_state = generate(raw),
         !.stages = Append(pipeline.stages, "sql_generator"),
         !.stage = StageAfter("sql_generator")]
  /\ calls' = Append(calls, LLMCall)
  /\ UNCHANGED <<config, store, other, probe, pc, engine, locals, prompt, response, ctx, error>>

\* run, lines 66-68: the Verifier probes every candidate
Verify ==
  /\ pipeline.stage = "verifier"
  /\ LET candidates == Get(pipeline.sql_generation_state, "candidates", <<>>)
         verdict == verify(candidates)
     IN  /\ pipeline' = [pipeline EXCEPT
               !.execution_state = verdict.execution_state,
               !.final_decision = verdict.final_decision,
               !.stages = Append(pipeline.stages, "verifier"),
               !.stage = StageAfter("verifier")]
         /\ calls' = calls \o [i \in 1..Len(candidates) |-> ProbeCall(candidates[i])]
  /\ UNCHANGED <<config, store, other, probe, pc, engine, locals, prompt, response, ctx, error>>

\* run, lines 70-72: close, ContextStore.save, return ctx.to_dict()
Persist ==
  /\ pipeline.stage = "persistence"
  /\ pipeline' = [pipeline EXCEPT
        !.closed = TRUE,
        !.saved = pipeline.saved \cup {pipeline.query_id},
        !.stages = Append(pipeline.stages, "persistence"),
        !.stage = StageAfter("persistence")]
  /\ UNCHANGED <<config, store, other, probe, pc, engine, locals, prompt, response, ctx, calls, error>>

NextPipeline ==
  \/ ReceiveRequest \/ Route \/ InvokeSchema
  \/ Seed \/ CallLLMPipeline \/ Dispatch \/ EndStep \/ LoopExit \/ Finish
  \/ SchemaReturns \/ Generate \/ Verify \/ Persist

SpecPipeline == InitPipeline /\ [][NextPipeline]_vars

----------------------------------------------------------------------------
(* Runs of up to MaxWindowSteps steps, long enough for the trace to outgrow *)
(* the prompt, on the stub agent and on an agent over a table too wide for  *)
(* the prompt.                                                              *)

InitWindow ==
  /\ config = SchemaAgentConfig(80, 5, MaxWindowSteps, 1, TRUE, TRUE)
  /\ store \in { StubStore, SpiderStore(SpiderWideColumns) }
  /\ pc = "start"
  /\ linked_schema = <<>>
  /\ seen_columns = {}
  /\ retrieve_cache = <<>>
  /\ trace = <<>>
  /\ step = 0
  /\ actions = <<>>
  /\ observations = <<>>
  /\ feedback_actions = 0
  /\ cursor = 1
  /\ prompt = <<>>
  /\ response = [kind |-> "none"]
  /\ ctx = <<>>
  /\ calls = <<>>
  /\ error = ""
  /\ other = NoRun
  /\ probe = NoProbe
  /\ pipeline = NoRequest

NextWindow == Seed \/ CallLLMPair \/ Dispatch \/ EndStep \/ LoopExit \/ Finish

SpecWindow == InitWindow /\ [][NextWindow]_vars

----------------------------------------------------------------------------
(* Direct calls of VerifierAgent.verify on a context whose candidate list   *)
(* is any list of at most MaxCandidateList statements, or is missing.       *)

\* ctx.sql_generation_state of the context handed to verify: no candidates
\* key, or a list of the statements of the model
GenerationStates ==
  { <<>> } \cup
  { [candidates |-> c] :
      c \in SeqUpTo(ProbeStatements \cup {"SELECT 1;"}, MaxCandidateList) }

InitVerify ==
  /\ config = SchemaAgentConfig(80, 5, 8, 1, TRUE, TRUE) /\ store = StubStore
  /\ pc = "idle"
  /\ linked_schema = <<>>
  /\ seen_columns = {}
  /\ retrieve_cache = <<>>
  /\ trace = <<>>
  /\ step = 0
  /\ actions = <<>>
  /\ observations = <<>>
  /\ feedback_actions = 0
  /\ cursor = 1
  /\ prompt = <<>>
  /\ response = [kind |-> "none"]
  /\ ctx = <<>>
  /\ calls = <<>>
  /\ error = ""
  /\ other = NoRun
  /\ probe = NoProbe
  /\ \E sql_state \in GenerationStates :
       pipeline = [Built([llm |-> "echo", db_catalog |-> StubCatalog]) EXCEPT
                     !.stage = "verifier", !.query_id = "uuid-1",
                     !.user_query = UserQuery,
                     !.sql_generation_state = sql_state]

SpecVerify == InitVerify /\ [][Verify]_vars

----------------------------------------------------------------------------
(* Direct calls of the Router stage on catalogs of at most MaxCatalog       *)
(* databases with distinct ids, in any order, and on several questions.     *)

\* the catalog entries the catalogs are made of
CatalogPool ==
  { [db_id |-> "archive", short_desc |-> "old orders", example_tables |-> <<"orders">>],
    [db_id |-> "crm", short_desc |-> "customer data", example_tables |-> <<"customers">>],
    [db_id |-> "sales", short_desc |-> "order amounts",
     example_tables |-> <<"orders", "customers">>],
    [db_id |-> "sales", short_desc |-> "stub database",
     example_tables |-> <<"orders", "customers">>] }

\* table_catalog = {db["db_id"]: db for db in self.db_catalog}: one entry per id
Catalogs ==
  { c \in SeqUpTo(CatalogPool, MaxCatalog) :
      \A i, j \in 1..Len(c) : c[i].db_id = c[j].db_id => i = j }

InitRouter ==
  /\ config = SchemaAgentConfig(80, 5, 8, 1, TRUE, TRUE) /\ store = StubStore
  /\ pc = "idle"
  /\ linked_schema = <<>>
  /\ seen_columns = {}
  /\ retrieve_cache = <<>>
  /\ trace = <<>>
  /\ step = 0
  /\ actions = <<>>
  /\ observations = <<>>
  /\ feedback_actions = 0
  /\ cursor = 1
  /\ prompt = <<>>
  /\ response = [kind |-> "none"]
  /\ ctx = <<>>
  /\ calls = <<>>
  /\ error = ""
  /\ other = NoRun
  /\ probe = NoProbe
  /\ \E db_catalog \in Catalogs,
        user_query \in { UserQuery, <<"order">>, <<"customer">>, <<"nope">> } :
       pipeline = [Built([llm |-> "echo", db_catalog |-> db_catalog]) EXCEPT
                     !.stage = "router", !.query_id = "uuid-1",
                     !.user_query = user_query]

SpecRouter == InitRouter /\ [][Route]_vars

----------------------------------------------------------------------------
(* Properties *)

Done == pc = "done"

NumCalls(svc) == Cardinality({i \in 1..Len(calls) : calls[i].svc = svc})

LastStep == trace[Len(trace)]

\* the actions of a recorded step include a stop_action
ContainsStop(acts) ==
  \E i \in 1..Len(acts) : IsDict(acts[i]) /\ Get(acts[i], "type", None) = "stop_action"

\* C1: with max_steps = N the run makes at most N gateway calls and its
\* trace holds at most N steps, whatever the gateway answers; the step
\* counter, which every completed step without a stop raises, never
\* passes N.
C1_BoundedRun ==
  /\ NumCalls("llm") <= config.max_steps
  /\ Len(trace) <= config.max_steps
  /\ step <= config.max_steps
  /\ Len(trace) <= NumCalls("llm")

\* a run that used its whole budget: N = 2 gateway calls, 2 trace steps
C1_Witness ==
  Done /\ config.max_steps = 2 /\ NumCalls("llm") = 2 /\ Len(trace) = 2

\* C2: when the run ends with a trace of length max_steps whose final step
\* has no stop_action, the engine's trace has forced_stop set on the final
\* step and on no other step.
C2_ForcedStopOnLastOnly ==
  (Done /\ trace # <<>> /\ Len(trace) = config.max_steps
        /\ ~ContainsStop(LastStep.llm_actions))
    => /\ LastStep.forced_stop
       /\ \A i \in 1..(Len(trace) - 1) : ~trace[i].forced_stop

C2_Witness ==
  /\ Done /\ config.max_steps = 2 /\ Len(trace) = 2
  /\ ~ContainsStop(LastStep.llm_actions)
  /\ LastStep.forced_stop /\ ~trace[1].forced_stop

\* the run left the loop because the step counter reached max_steps
EndedByExhaustion ==
  Done /\ trace # <<>> /\ step >= config.max_steps

\* C3: after a run that ends by step-budget exhaustion, the trace returned
\* in ctx.schema_state["linking_trace"] has forced_stop = true on its last
\* step.
C3_ReturnedTraceForcedStop ==
  EndedByExhaustion =>
    /\ "linking_trace" \in DOMAIN ctx
    /\ Len(ctx.linking_trace) = Len(trace)
    /\ ctx.linking_trace[Len(ctx.linking_trace)].forced_stop

\* C4: once a recorded step contains a stop_action it is the last step of
\* the trace: no further gateway, index or probe call is made, no step is
\* added and no step carries forced_stop, also at step max_steps - 1.
C4_NaturalStopIsFinal ==
  [][(\E i \in 1..Len(trace) : ContainsStop(trace[i].llm_actions))
       => /\ ContainsStop(LastStep.llm_actions)
          /\ calls' = calls
          /\ Len(trace') = Len(trace)
          /\ \A j \in 1..Len(trace') : ~trace'[j].forced_stop
          /\ error' = ""]_vars

\* a natural stop in the last step the budget allows (k = max_steps - 1)
C4_Witness ==
  /\ Done /\ config.max_steps = 2 /\ Len(trace) = 2
  /\ ContainsStop(LastStep.llm_actions) /\ LastStep.step = config.max_steps - 1
  /\ ~LastStep.forced_stop

\* C5: when the gateway returns text that is not JSON, or JSON that is not
\* an array, the step's action list is exactly [stop_action], the step is
\* recorded with the stop_action Observation and the run ends at that step
\* without an error.
C5_FailSafeParsing ==
  response.kind \in {"text", "object", "scalar"} =>
    /\ actions = <<[type |-> "stop_action"]>>
    /\ error = ""
    /\ pc \in {"dispatch", "after_loop", "done"}
    /\ (pc # "dispatch" =>
          /\ Len(trace) = step + 1
          /\ LastStep.llm_actions = <<[type |-> "stop_action"]>>
          /\ LastStep.observations[1] = [action |-> "stop_action"]
          /\ ~LastStep.forced_stop)

C5_Witness ==
  /\ Done /\ response.kind = "object" /\ Len(trace) = 1 /\ config.max_steps = 2
  /\ LastStep.llm_actions = <<[type |-> "stop_action"]>>

\* C6: whatever the gateway returns and whatever max_steps is, the run
\* raises no error and the context it returns holds a LinkedSchema and a
\* Trace.
C6_NeverRaises ==
  /\ pc # "raised"
  /\ error = ""
  /\ (Done => {"linked_schema", "linking_trace"} \subseteq DOMAIN ctx)

\* the action about to be dispatched is a record whose `type` is present
\* and outside the closed vocabulary
AtUnknownAction ==
  /\ pc = "dispatch" /\ cursor <= Len(actions)
  /\ IsDict(actions[cursor])
  /\ "type" \in DOMAIN actions[cursor]
  /\ actions[cursor].type \notin
       {"retrieve_schema", "explore_schema", "verify_schema", "add_schema", "stop_action"}

\* C7: dispatching an action whose type is outside the closed vocabulary
\* adds exactly one Observation tagged `unknown` that echoes the action,
\* changes no other engine state, raises nothing and leaves the loop
\* running.
C7_UnknownActionKeepsLoop ==
  [][AtUnknownAction =>
       /\ observations' = Append(observations, [action |-> "unknown", detail |-> actions[cursor]])
       /\ UNCHANGED <<linked_schema, seen_columns, retrieve_cache, step, trace, ctx, calls>>
       /\ error' = ""
       /\ pc' = "dispatch"
       /\ cursor' = cursor + 1]_vars

\* C8: every transition keeps every seen identity, every linked table and
\* every linked column.
C8_MonotonicGrowth ==
  [][/\ seen_columns \subseteq seen_columns'
     /\ \A i \in 1..Len(linked_schema) :
          \E j \in 1..Len(linked_schema') :
            /\ linked_schema'[j].table = linked_schema[i].table
            /\ Len(linked_schema'[j].columns) >= Len(linked_schema[i].columns)
            /\ Range(linked_schema[i].columns) \subseteq Range(linked_schema'[j].columns)]_vars

\* an add_schema grew a table that already held seeded columns
C8_Witness ==
  /\ Done /\ InitialCols # <<>>
  /\ \E i \in 1..Len(linked_schema) :
       /\ Len(linked_schema[i].columns) >= 3
       /\ \E c \in Range(linked_schema[i].columns) : c \notin Range(InitialCols)

\* C9: in every reachable state, seed included, no table of LinkedSchema
\* holds two descriptors with the same identity.
C9_NoDuplicateIdentity ==
  \A i \in 1..Len(linked_schema) :
    \A j, k \in 1..Len(linked_schema[i].columns) :
      j # k => id(linked_schema[i].columns[j]) # id(linked_schema[i].columns[k])

\* the action about to be dispatched is an add_schema
AtAddSchema ==
  /\ pc = "dispatch" /\ cursor <= Len(actions)
  /\ IsDict(actions[cursor])
  /\ Get(actions[cursor], "type", None) = "add_schema"

\* no recorded step carries an add_schema action
NoAddSchemaIn(tr) ==
  \A i \in 1..Len(tr) : \A j \in 1..Len(tr[i].llm_actions) :
    Get(tr[i].llm_actions[j], "type", None) # "add_schema"

\* C10: after seeding, a transition changes LinkedSchema or seen_columns
\* only when it dispatches an add_schema, so a finished run without an
\* add_schema holds the seed.
C10_OnlyAddSchemaLinks ==
  /\ [][(pc # "start" /\ ~AtAddSchema)
          => (linked_schema' = linked_schema /\ seen_columns' = seen_columns)]_vars
  /\ []((Done /\ NoAddSchemaIn(trace))
          => /\ linked_schema = build_schema_from_columns(InitialCols)
             /\ seen_columns = {id(c) : c \in Range(InitialCols)})

\* the literal scenario: two steps of [retrieve_schema] that fetched
\* columns, and the schema is still the seed
C10_Witness ==
  /\ Done /\ config.max_steps = 2 /\ Len(trace) = 2
  /\ \A i \in 1..2 : trace[i].llm_actions = <<[type |-> "retrieve_schema"]>>
  /\ retrieve_cache # <<>> /\ retrieve_cache[1].cols # <<>>
  /\ linked_schema = build_schema_from_columns(InitialCols)

\* the identities linked under any table of a LinkedSchema
LinkedIdentities(ls) ==
  UNION { {ls[i].columns[j].table \o "." \o ls[i].columns[j].name :
             j \in 1..Len(ls[i].columns)} : i \in 1..Len(ls) }

\* the Observation the dispatch being taken appends
NewObservation == observations'[Len(observations')]

\* C11: the `added` list of an add_schema Observation is exactly the list
\* of identities the action newly linked: it names no identity that was
\* linked before the action and names no identity twice.
C11_AddedIsNewlyLinked ==
  [][AtAddSchema =>
       LET added == NewObservation.added
       IN  /\ Range(added) = LinkedIdentities(linked_schema') \ LinkedIdentities(linked_schema)
           /\ \A i, j \in 1..Len(added) : i # j => added[i] # added[j]]_vars

\* the descriptors _resolve_columns yields for the add_schema about to be
\* dispatched
ResolvedNow ==
  resolve_columns(Get(actions[cursor], "columns", <<>>), retrieve_cache,
                  seen_columns, store).cols

\* LinkedSchema ls holds, under the table c.table, a descriptor with the
\* identity of c (the merge is append-if-absent-by-identity)
LinkedUnderOwner(ls, c) ==
  \E i \in 1..Len(ls) :
    /\ ls[i].table = c.table
    /\ \E d \in Range(ls[i].columns) : d.table = c.table /\ d.name = c.name

\* C12: after an add_schema action every descriptor resolved for it is in
\* LinkedSchema under its owning table and its identity is in seen_columns.
C12_ResolvedIsLinkedAndSeen ==
  [][AtAddSchema =>
       \A c \in Range(ResolvedNow) :
         /\ LinkedUnderOwner(linked_schema', c)
         /\ (c.table \o "." \o c.name) \in seen_columns'
         /\ (c.table \o "." \o c.name) \in Range(NewObservation.added)]_vars

\* an add_schema linked a column under a table the seed did not hold
C12_Witness ==
  /\ Done /\ Len(trace) = 1 /\ Len(LastStep.observations) >= 1
  /\ LastStep.observations[1] = [action |-> "add_schema", added |-> <<"customers.country">>]
  /\ "customers.country" \in seen_columns
  /\ \E i \in 1..Len(linked_schema) :
       /\ linked_schema[i].table = "customers"
       /\ \E c \in Range(linked_schema[i].columns) : c.name = "country"
  /\ \A c \in Range(InitialCols) : c.table # "customers"

\* some cached retrieval result holds a descriptor with identity col_name
Cached(col_name) ==
  \E k \in 1..Len(retrieve_cache) :
    \E c \in Range(retrieve_cache[k].cols) : c.table \o "." \o c.name = col_name

\* col_name is resolved neither by the cache nor by the fallback retrieval
Unresolvable(col_name) ==
  /\ ~Cached(col_name)
  /\ search_columns(store, FallbackQuery(col_name), seen_columns, 1) = <<>>

Resolvable(col_name) == ~Unresolvable(col_name)

\* C13: an add_schema identifier found neither in the cache nor by the
\* fallback retrieval is dropped: the dispatch raises nothing, appends the
\* ordinary add_schema Observation, links and marks seen nothing for that
\* identifier, still processes every other identifier of the action (one
\* `added` entry each, the cached ones under their own identity), and the
\* loop goes on to the next action.
C13_UnresolvableIsDropped ==
  [][(AtAddSchema /\ \E n \in Range(actions[cursor].columns) : Unresolvable(n)) =>
       LET requested == actions[cursor].columns
           others == SelectSeq(requested, Resolvable)
           added == NewObservation.added
       IN  /\ error' = "" /\ pc' = "dispatch" /\ cursor' = cursor + 1
           /\ Len(observations') = Len(observations) + 1
           /\ DOMAIN NewObservation = {"action", "added"}
           /\ NewObservation.action = "add_schema"
           /\ Len(added) = Len(others)
           /\ \A i \in 1..Len(others) : Cached(others[i]) => added[i] = others[i]
           /\ seen_columns' = seen_columns \cup Range(added)
           /\ LinkedIdentities(linked_schema') =
                LinkedIdentities(linked_schema) \cup Range(added)
           /\ \A n \in Range(requested) :
                Unresolvable(n) => (n \in seen_columns' <=> n \in seen_columns)]_vars

\* an add_schema of ["nope", "customers.country"] when every column of the
\* store is seen and customers.country is cached: "nope" is dropped and
\* customers.country is still added
C13_Witness ==
  /\ Done /\ error = "" /\ "nope" \notin seen_columns
  /\ \E i \in 1..Len(trace) : \E j \in 1..Len(trace[i].llm_actions) :
       /\ trace[i].llm_actions[j] =
            [type |-> "add_schema", columns |-> <<"nope", "customers.country">>]
       /\ trace[i].observations[j] =
            [action |-> "add_schema", added |-> <<"customers.country">>]

\* number of actions of type retrieve_schema, explore_schema or
\* verify_schema in an action list
FeedbackCount(acts) ==
  Cardinality({j \in 1..Len(acts) :
                 Get(acts[j], "type", None) \in
                   {"retrieve_schema", "explore_schema", "verify_schema"}})

IsWarning(obs) == "warning" \in DOMAIN obs

WarningCount(obs_list) == Cardinality({j \in 1..Len(obs_list) : IsWarning(obs_list[j])})

\* C14: a recorded step with fewer than min_feedback_actions_per_step
\* feedback actions holds exactly one warning Observation, placed after
\* its action Observations; a step that meets the minimum holds none; a
\* run is never ended by a warned step unless that step carries a
\* stop_action or is step max_steps - 1, and a run that raised did so
\* while dispatching an action, before any warning of that step.
C14_FeedbackFloorWarning ==
  /\ \A i \in 1..Len(trace) :
       LET acts == trace[i].llm_actions
           obs == trace[i].observations
       IN  /\ FeedbackCount(acts) < config.min_feedback_actions_per_step =>
                /\ Len(obs) = Len(acts) + 1
                /\ WarningCount(obs) = 1
                /\ obs[Len(obs)] = [warning |-> "no_feedback_action",
                                    detail |-> "Add retrieve_schema/explore_schema/verify_schema"]
           /\ FeedbackCount(acts) >= config.min_feedback_actions_per_step =>
                /\ Len(obs) = Len(acts)
                /\ WarningCount(obs) = 0
  /\ (Done /\ trace # <<>> /\ WarningCount(LastStep.observations) > 0
        /\ ~ContainsStop(LastStep.llm_actions)) => Len(trace) = config.max_steps
  /\ pc = "raised" => (cursor <= Len(actions) /\ WarningCount(observations) = 0)

\* a warned first step followed by a second step that has a feedback
\* action and no warning
C14_Witness ==
  /\ Done /\ Len(trace) = 2 /\ config.min_feedback_actions_per_step = 1
  /\ FeedbackCount(trace[1].llm_actions) = 0 /\ WarningCount(trace[1].observations) = 1
  /\ FeedbackCount(trace[2].llm_actions) = 1 /\ WarningCount(trace[2].observations) = 0

\* the action about to be dispatched is an explore_schema or a
\* verify_schema that the configuration forwards to the Probe Service
AtProbeAction ==
  /\ pc = "dispatch" /\ cursor <= Len(actions)
  /\ IsDict(actions[cursor])
  /\ \/ Get(actions[cursor], "type", None) = "explore_schema" /\ config.enable_explore_schema
     \/ Get(actions[cursor], "type", None) = "verify_schema" /\ config.enable_verify_schema

\* C15: a probe that returns status "error" for an explore_schema or a
\* verify_schema does not abort the run: the dispatch raises nothing, the
\* loop goes on, and the Observation it appends carries the probe status,
\* the error type and the short error message; the prompt of a following
\* step shows the Observations of the step before it.
C15_ProbeErrorIsObserved ==
  /\ [][AtProbeAction =>
          /\ error' = "" /\ pc' = "dispatch" /\ cursor' = cursor + 1
          /\ Len(observations') = Len(observations) + 1
          /\ NewObservation.status = "error" =>
               /\ {"error", "message"} \subseteq DOMAIN NewObservation
               /\ NewObservation.error = "syntax"
               /\ NewObservation.message = "non-select probe rejected"]_vars
  /\ []((pc = "dispatch" /\ trace # <<>>) =>
          /\ prompt.trace_text # <<>>
          /\ prompt.trace_text[Len(prompt.trace_text)].observations = LastStep.observations)

\* the run stands between two steps or has just left the loop: the last
\* thing it did was to record a step
StepRecorded == pc \in {"loop", "after_loop"} /\ trace # <<>>

\* plain-data form of a linked column as the context holds it
ColumnEntry(c) ==
  [name |-> c.name, type |-> c.type,
   role |-> IF c.is_pk THEN "pk" ELSE IF c.is_fk THEN "fk" ELSE "col",
   description |-> c.description,
   sample_values |-> SubSeq(c.sample_values, 1, Min(3, Len(c.sample_values)))]

\* C16: once step k is recorded, ctx.schema_state holds the serialization
\* of the current LinkedSchema and of the whole trace so far, k + 1
\* entries, in the middle of the run as well as at its end.
C16_ContextFollowsSteps ==
  StepRecorded =>
    /\ {"linked_schema", "linking_trace"} \subseteq DOMAIN ctx
    /\ Len(ctx.linking_trace) = Len(trace)
    /\ Len(ctx.linking_trace) = LastStep.step + 1
    /\ \A i \in 1..Len(trace) :
         ctx.linking_trace[i] =
           [step |-> i - 1, llm_actions |-> trace[i].llm_actions,
            observations |-> trace[i].observations, forced_stop |-> FALSE]
    /\ Len(ctx.linked_schema) = Len(linked_schema)
    /\ \A i \in 1..Len(linked_schema) :
         /\ ctx.linked_schema[i].table = linked_schema[i].table
         /\ Len(ctx.linked_schema[i].columns) = Len(linked_schema[i].columns)
         /\ \A j \in 1..Len(linked_schema[i].columns) :
              ctx.linked_schema[i].columns[j] = ColumnEntry(linked_schema[i].columns[j])

\* between step 0 and step 1 of a two-step budget, after step 0 linked a
\* column beyond the seed: the context already shows one step and the
\* grown schema
C16_Witness ==
  /\ pc = "loop" /\ config.max_steps = 2 /\ step = 1 /\ Len(trace) = 1
  /\ Len(ctx.linking_trace) = 1
  /\ linked_schema # build_schema_from_columns(InitialCols)
  /\ ctx.linked_schema = serialize_linked_schema(linked_schema)

\* the second run was called on an agent with the attributes of the first
\* one and has received the same gateway answers up to the same position
SameInputs ==
  /\ other.config = config /\ other.store = store
  /\ other.pc = pc /\ other.cursor = cursor /\ other.actions = actions
  /\ Len(other.trace) = Len(trace)
  /\ \A i \in 1..Len(trace) : other.trace[i].llm_actions = trace[i].llm_actions

\* C17: two runs whose steps interleave in any order do not share engine
\* state: a step of one run leaves the linked schema, seen columns,
\* retrieve cache, trace and step counter of the other as they were, and a
\* run that was given the same agent attributes and the same gateway
\* answers as the other holds the same LinkedSchema, seen columns, cache,
\* trace and step counter, however the two were interleaved.
C17_RunsDoNotInterfere ==
  /\ [](SameInputs =>
          /\ other.linked_schema = linked_schema
          /\ other.seen_columns = seen_columns
          /\ other.retrieve_cache = retrieve_cache
          /\ other.trace = trace
          /\ other.step = step
          /\ other.observations = observations
          /\ other.ctx = ctx)
  /\ [][/\ other' # other => UNCHANGED <<engine, locals, ctx, pc, error>>
        /\ engine' # engine =>
             /\ other'.linked_schema = other.linked_schema
             /\ other'.seen_columns = other.seen_columns
             /\ other'.retrieve_cache = other.retrieve_cache
             /\ other'.trace = other.trace
             /\ other'.step = other.step]_vars

\* both runs finished after the same answer [add_schema, retrieve_schema]
\* and linked the same column beyond the seed
C17_Witness ==
  /\ Done /\ other.pc = "done" /\ SameInputs
  /\ Len(trace) = 2
  /\ trace[1].llm_actions =
       << [type |-> "add_schema", columns |-> <<"orders.total_amount">>],
          [type |-> "retrieve_schema"] >>
  /\ linked_schema # build_schema_from_columns(InitialCols)
  /\ other.linked_schema = linked_schema /\ other.trace = trace

\* the answers of the scripted gateway, in order
Script ==
  << <<[type |-> "add_schema", columns |-> <<"orders.total_amount">>]>>,
     <<[type |-> "verify_schema", sql |-> "select 1"]>>,
     <<[type |-> "stop_action"]>> >>

\* a finished run whose gateway answered with the script, in order, for
\* as many steps as the run took
ScriptPlayed ==
  /\ Done /\ trace # <<>> /\ Len(trace) <= Len(Script)
  /\ config.max_steps = 3 /\ config.min_feedback_actions_per_step = 1
  /\ \A i \in 1..Len(trace) : trace[i].llm_actions = Script[i]

\* orders.total_amount was seeded, or the fallback retrieval of step 0
\* returns the descriptor with that identity
TotalAmountResolvable ==
  \/ \E c \in Range(InitialCols) : c.table = "orders" /\ c.name = "total_amount"
  \/ LET fetched == search_columns(store, <<"orders", "total_amount">>,
                                    {c.table \o "." \o c.name : c \in Range(InitialCols)}, 1)
     IN  fetched # <<>> /\ fetched[1].table = "orders" /\ fetched[1].name = "total_amount"

\* C18: with max_steps = 3, min_feedback = 1 and the answers
\* [add_schema orders.total_amount], [verify_schema "select 1"],
\* [stop_action], the run ends with three steps, forced_stop false on each,
\* a warning in step 0 and none in step 1, which has a feedback action,
\* and orders.total_amount linked when the index can resolve it.
C18_ScriptedScenario ==
  ScriptPlayed =>
    /\ Len(trace) = 3
    /\ error = ""
    /\ \A i \in 1..3 : ~trace[i].forced_stop
    /\ WarningCount(trace[1].observations) = 1
    /\ \A i \in 1..3 :
         FeedbackCount(trace[i].llm_actions) >= 1 => WarningCount(trace[i].observations) = 0
    /\ trace[2].observations =
         <<[action |-> "verify_schema", status |-> "ok", error |-> None, message |-> None]>>
    /\ TotalAmountResolvable => "orders.total_amount" \in LinkedIdentities(linked_schema)

\* the scenario over the stub store seeded with three columns: the fallback
\* retrieval of step 0 resolves orders.total_amount and it is linked
C18_Witness ==
  /\ ScriptPlayed /\ Len(trace) = 3 /\ store.kind = "stub"
  /\ Len(InitialCols) = 3
  /\ trace[1].observations[1] = [action |-> "add_schema", added |-> <<"orders.total_amount">>]
  /\ "orders.total_amount" \in LinkedIdentities(linked_schema)

\* the statements that only read
ReadOnlyStatements ==
  {"select 1", "select * from orders", "select * from orders limit 100",
   "select * from missing"}

\* C19: exec_probe of every Probe Service returns status "error" for
\* every statement that is not read-only and never returns more than
\* row_limit sample rows.
C19_ProbeIsReadOnlyAndCapped ==
  probe.service # "none" =>
    /\ probe.sql \notin ReadOnlyStatements => probe.result.status = "error"
    /\ Len(probe.result.sample_rows) <= probe.row_limit

\* the stages of Orchestrator.run in the order the pipeline names them
StageOrder == <<"router", "schema", "sql_generator", "verifier", "persistence">>

IsPrefix(s, t) == Len(s) <= Len(t) /\ \A i \in 1..Len(s) : s[i] = t[i]

\* the runs of the schema engine, counted by their seeding retrievals
EngineRuns ==
  Cardinality({ i \in 1..Len(calls) : calls[i].svc = "index" /\ calls[i].exclude = {} })

\* the orchestrator is the one build_orchestrator wires from the stubs
StubServices ==
  /\ pipeline.llm = "echo"
  /\ pipeline.db_catalog = << [db_id |-> "sales", short_desc |-> "stub database",
                               example_tables |-> <<"orders", "customers">>] >>

Returned == pipeline.stage = "returned"

\* C20: Orchestrator.run invokes the stages in the order Router, schema
\* engine, SQL generator, Verifier, persistence: the stages invoked so far
\* are always a prefix of that order, the schema engine runs only once the
\* Router has been invoked and has returned before the SQL generator is,
\* and it is invoked at most once and exactly once by the time the context
\* is returned.  With the stub services the returned context has a
\* non-empty query_id, a non-empty chosen_db, a linked_schema entry in
\* schema_state and a non-empty list of SQL candidates.
C20_PipelineOrder ==
  /\ IsPrefix(pipeline.stages, StageOrder)
  /\ pipeline.engine_calls <= 1 /\ EngineRuns <= pipeline.engine_calls
  /\ (pc # "idle") <=> (Len(pipeline.stages) >= 2)
  /\ Len(pipeline.stages) >= 3 => pc = "done"
  /\ Returned =>
       /\ pipeline.stages = StageOrder
       /\ pipeline.engine_calls = 1 /\ EngineRuns = 1
       /\ pipeline.closed /\ pipeline.query_id \in pipeline.saved
  /\ (Returned /\ StubServices) =>
       /\ pipeline.query_id # ""
       /\ pipeline.router.chosen_db # ""
       /\ "linked_schema" \in DOMAIN pipeline.schema_state
       /\ "candidates" \in DOMAIN pipeline.sql_generation_state
       /\ pipeline.sql_generation_state.candidates # <<>>

\* a request served by the stub wiring has been returned
C20_Witness ==
  /\ Returned /\ StubServices
  /\ pipeline.stages = StageOrder
  /\ pipeline.sql_generation_state.candidates = <<"SELECT 1;">>
  /\ pipeline.final_decision.status = "ok"

\* an add_schema Observation that names at least one identity was recorded
AddedSomething(tr) ==
  \E i \in 1..Len(tr) : \E j \in 1..Len(tr[i].observations) :
    LET o == tr[i].observations[j]
    IN  /\ "action" \in DOMAIN o
        /\ o.action = "add_schema"
        /\ o.added # <<>>

\* C21: in every reachable state LinkedSchema has one entry per table
\* name, every descriptor stored under table t has owning table t, and no
\* identity is listed under two tables.
C21_OneTablePerIdentity ==
  /\ \A i, j \in 1..Len(linked_schema) :
       linked_schema[i].table = linked_schema[j].table => i = j
  /\ \A i \in 1..Len(linked_schema) :
       \A c \in Range(linked_schema[i].columns) : c.table = linked_schema[i].table
  /\ \A i, j \in 1..Len(linked_schema) :
       i # j =>
         \A c \in Range(linked_schema[i].columns), d \in Range(linked_schema[j].columns) :
           (c.table \o "." \o c.name) # (d.table \o "." \o d.name)

\* a finished run whose schema holds two tables, more than the seed
\* fetched, after an add_schema merged at least one column
C21_Witness ==
  /\ Done /\ AddedSomething(trace)
  /\ Len(linked_schema) = 2
  /\ \A i \in 1..Len(linked_schema) : linked_schema[i].columns # <<>>
  /\ Len(InitialCols) < Len(linked_schema[1].columns) + Len(linked_schema[2].columns)

\* the action about to be dispatched is a retrieve_schema
AtRetrieveSchema ==
  /\ pc = "dispatch" /\ cursor <= Len(actions)
  /\ IsDict(actions[cursor])
  /\ Get(actions[cursor], "type", None) = "retrieve_schema"

\* C22: a retrieve_schema action that completes calls the index once,
\* with the whole seen_columns of that moment as the exclusion set, and no
\* identity its Observation lists in `returned` is in seen_columns or in
\* LinkedSchema at that moment.
C22_RetrieveExcludesSeen ==
  [][(AtRetrieveSchema /\ error' = "") =>
       /\ Len(calls') = Len(calls) + 1
       /\ calls'[Len(calls')].svc = "index"
       /\ calls'[Len(calls')].exclude = seen_columns
       /\ NewObservation.action = "retrieve_schema"
       /\ \A k \in 1..Len(NewObservation.returned) :
            /\ NewObservation.returned[k] \notin seen_columns
            /\ NewObservation.returned[k] \notin LinkedIdentities(linked_schema)]_vars

\* a retrieve_schema fetched new columns while others were already seen
C22_Witness ==
  /\ pc = "dispatch" /\ cursor = 2 /\ Len(observations) = 1
  /\ "action" \in DOMAIN observations[1]
  /\ observations[1].action = "retrieve_schema"
  /\ observations[1].returned # <<>>
  /\ seen_columns # {}
  /\ calls[Len(calls)].svc = "index"
  /\ calls[Len(calls)].exclude = seen_columns

\* the descriptors of the cached retrieval results with identity col_name
CachedDescriptors(col_name) ==
  UNION { { c \in Range(retrieve_cache[k].cols) : c.table \o "." \o c.name = col_name }
          : k \in 1..Len(retrieve_cache) }

\* the positions of the requested list whose identifier is not cached
Uncached(requested) == { k \in 1..Len(requested) : ~Cached(requested[k]) }

\* C23: an add_schema action queries the index once, with width 1 and the
\* table and column name as the query, for every requested identifier that
\* no cached retrieval result of the run holds, and not at all for the
\* others; a cached identifier is reported as added and afterwards
\* LinkedSchema holds a cached descriptor of that identity under its table.
C23_AddSchemaCacheFirst ==
  [][AtAddSchema =>
       LET requested == actions[cursor].columns
           issued == SubSeq(calls', Len(calls) + 1, Len(calls'))
       IN  /\ Len(issued) = Cardinality(Uncached(requested))
           /\ \A k \in 1..Len(issued) :
                /\ issued[k].svc = "index" /\ issued[k].top_k = 1
                /\ \E n \in Uncached(requested) :
                     issued[k].query = FallbackQuery(requested[n])
           /\ \A n \in 1..Len(requested) :
                Cached(requested[n]) =>
                  /\ requested[n] \in Range(NewObservation.added)
                  /\ \E d \in CachedDescriptors(requested[n]) :
                       \E i \in 1..Len(linked_schema') :
                         /\ linked_schema'[i].table = d.table
                         /\ d \in Range(linked_schema'[i].columns)]_vars

\* the run retrieved orders.total_amount, which the seed did not hold,
\* then added it: one index call for the seed, one for the retrieval, none
\* for the add_schema
C23_Witness ==
  /\ Done /\ Len(trace) = 1
  /\ Len(LastStep.observations) = 2
  /\ LastStep.observations[1].action = "retrieve_schema"
  /\ "orders.total_amount" \in Range(LastStep.observations[1].returned)
  /\ LastStep.observations[2] = [action |-> "add_schema", added |-> <<"orders.total_amount">>]
  /\ NumCalls("index") = 2
  /\ "orders.total_amount" \in LinkedIdentities(linked_schema)

\* obs is the Observation the dispatch of action makes
ObservationOf(action, obs) ==
  LET type == action.type
  IN  /\ "action" \in DOMAIN obs
      /\ IF type \in {"retrieve_schema", "add_schema", "stop_action"}
           THEN obs.action = type
         ELSE IF type = "explore_schema" /\ config.enable_explore_schema
           THEN obs.action = type
         ELSE IF type = "verify_schema" /\ config.enable_verify_schema
           THEN obs.action = type
         ELSE obs.action = "unknown" /\ obs.detail = action

\* the observations a step holds for its actions: one per action, in the
\* order of the actions; only the warning may follow them
InActionOrder(acts, obs_list) ==
  /\ Len(obs_list) \in {Len(acts), Len(acts) + 1}
  /\ \A j \in 1..Len(acts) : ObservationOf(acts[j], obs_list[j])
  /\ Len(obs_list) = Len(acts) + 1 => IsWarning(obs_list[Len(obs_list)])

\* the calls a transition added to the call log
NewCalls == SubSeq(calls', Len(calls) + 1, Len(calls'))

\* the tool calls the dispatch of action may make
ToolCallsOf(action, issued) ==
  LET type == Get(action, "type", None)
  IN  IF type = "retrieve_schema"
        THEN Len(issued) <= 1 /\ \A k \in 1..Len(issued) : issued[k].svc = "index"
      ELSE IF type = "add_schema"
        THEN \A k \in 1..Len(issued) : issued[k].svc = "index" /\ issued[k].top_k = 1
      ELSE IF type \in {"explore_schema", "verify_schema"}
        THEN Len(issued) <= 1
             /\ \A k \in 1..Len(issued) : issued[k] = [svc |-> "probe", sql |-> action.sql]
      ELSE issued = <<>>

\* C24: a step makes its one gateway call before any tool call, after
\* every earlier step was appended to the trace; its actions are
\* dispatched one by one in the order of the decoded list, each one making
\* its own tool calls and exactly one Observation at its own position; the
\* TraceStep appended holds the actions and these observations in order.
C24_StepOrdering ==
  /\ [](/\ pc = "loop" => NumCalls("llm") = Len(trace)
        /\ pc = "dispatch" =>
             /\ NumCalls("llm") = Len(trace) + 1
             /\ Len(observations) = cursor - 1
             /\ \A j \in 1..(cursor - 1) : ObservationOf(actions[j], observations[j])
        /\ \A i \in 1..Len(trace) :
             InActionOrder(trace[i].llm_actions, trace[i].observations))
  /\ [][/\ (pc = "loop" /\ pc' = "dispatch") =>
             /\ NewCalls = <<[svc |-> "llm"]>>
             /\ cursor' = 1 /\ observations' = <<>> /\ trace' = trace
        /\ (pc = "dispatch" /\ cursor <= Len(actions)) =>
             /\ actions' = actions /\ trace' = trace
             /\ IsDict(actions[cursor]) => ToolCallsOf(actions[cursor], NewCalls)
             /\ error' = "" =>
                  /\ cursor' = cursor + 1
                  /\ observations' = Append(observations, NewObservation)
        /\ (pc = "dispatch" /\ cursor > Len(actions)) =>
             /\ NewCalls = <<>>
             /\ Len(trace') = Len(trace) + 1
             /\ trace'[Len(trace')].llm_actions = actions
             /\ SubSeq(trace'[Len(trace')].observations, 1, Len(actions)) = observations
        /\ pc \in {"after_loop", "done", "raised"} => NewCalls = <<>>]_vars

\* a one-step run of [retrieve_schema, explore_schema]: the seeding call,
\* the gateway call, the index call and the probe call in this order, and
\* the two observations in the order of the actions
C24_Witness ==
  /\ Done /\ Len(trace) = 1
  /\ Len(trace[1].llm_actions) = 2
  /\ trace[1].llm_actions[1].type = "retrieve_schema"
  /\ trace[1].llm_actions[2].type = "explore_schema"
  /\ Len(trace[1].observations) = 2
  /\ trace[1].observations[1].action = "retrieve_schema"
  /\ trace[1].observations[2].action = "explore_schema"
  /\ Len(calls) = 4
  /\ calls[1].svc = "index" /\ calls[2].svc = "llm"
  /\ calls[3].svc = "index" /\ calls[4].svc = "probe"

\* the columns of cols owned by table t, in their order
RECURSIVE ColumnsOf(_, _)
ColumnsOf(cols, t) ==
  IF cols = <<>> THEN <<>>
  ELSE (IF Head(cols).table = t THEN <<Head(cols)>> ELSE <<>>) \o ColumnsOf(Tail(cols), t)

\* ls holds exactly the columns cols, each table's under its own entry
GroupedByOwner(ls, cols) ==
  /\ { ls[i].table : i \in 1..Len(ls) } = { cols[k].table : k \in 1..Len(cols) }
  /\ \A i, j \in 1..Len(ls) : ls[i].table = ls[j].table => i = j
  /\ \A i \in 1..Len(ls) : ls[i].columns = ColumnsOf(cols, ls[i].table)

\* the call the seeding makes
SeedingCall ==
  [svc |-> "index", query |-> UserQuery, exclude |-> {}, top_k |-> config.initial_top_m]

\* what the index answers to it
Fetched == search_columns(store, UserQuery, {}, config.initial_top_m)

\* C25: the first call of a run is the seeding retrieval: the whole
\* question, an empty exclusion set, width initial_top_m.  It comes before
\* any gateway call, and right after it seen_columns is the set of the
\* identities fetched and LinkedSchema holds the fetched columns grouped by
\* owning table.  Every later index call is made for a retrieve_schema or
\* an add_schema action.
C25_OneSeedingRetrieval ==
  /\ [](/\ pc = "start" => calls = <<>>
        /\ pc # "start" => (calls # <<>> /\ calls[1] = SeedingCall))
  /\ [][/\ pc = "start" =>
             /\ NewCalls = <<SeedingCall>>
             /\ seen_columns' = { Fetched[k].table \o "." \o Fetched[k].name
                                  : k \in 1..Len(Fetched) }
             /\ GroupedByOwner(linked_schema', Fetched)
        /\ (pc # "start" /\ \E k \in 1..Len(NewCalls) : NewCalls[k].svc = "index") =>
             (AtRetrieveSchema \/ AtAddSchema)]_vars

\* right after the seeding of the default stub agent: one call, six
\* identities seen, two tables linked, no gateway call yet
C25_Witness ==
  /\ pc = "loop" /\ step = 0 /\ trace = <<>>
  /\ calls = <<SeedingCall>>
  /\ config.initial_top_m = 80
  /\ Cardinality(seen_columns) = 6
  /\ Len(linked_schema) = 2
  /\ Len(linked_schema[1].columns) = 4 /\ Len(linked_schema[2].columns) = 2

\* a probe action whose toggle is off
DisabledProbe(action) ==
  /\ IsDict(action)
  /\ \/ Get(action, "type", None) = "explore_schema" /\ ~config.enable_explore_schema
     \/ Get(action, "type", None) = "verify_schema" /\ ~config.enable_verify_schema

\* the action about to be dispatched is a probe action whose toggle is off
AtDisabledProbe ==
  /\ pc = "dispatch" /\ cursor <= Len(actions)
  /\ DisabledProbe(actions[cursor])

\* C26: the dispatch of an explore_schema action with explore_schema
\* disabled, or of a verify_schema action with verify_schema disabled,
\* calls no service, raises nothing, appends exactly one Observation and
\* moves on to the next action; the step is recorded with the action and
\* that Observation at the action's position.
C26_DisabledProbeNotForwarded ==
  /\ [][AtDisabledProbe =>
          /\ calls' = calls
          /\ error' = "" /\ pc' = "dispatch" /\ cursor' = cursor + 1
          /\ Len(observations') = Len(observations) + 1
          /\ linked_schema' = linked_schema /\ seen_columns' = seen_columns]_vars
  /\ [](\A i \in 1..Len(trace) : \A j \in 1..Len(trace[i].llm_actions) :
          DisabledProbe(trace[i].llm_actions[j]) =>
            /\ Len(trace[i].observations) >= Len(trace[i].llm_actions)
            /\ "action" \in DOMAIN trace[i].observations[j]
            /\ trace[i].observations[j].action \notin {"explore_schema", "verify_schema"}
            /\ "status" \notin DOMAIN trace[i].observations[j])

\* explore_schema is disabled: a first step of one explore_schema action
\* was recorded, no probe call was made, and the run went on to a second
\* step
C26_Witness ==
  /\ Done /\ ~config.enable_explore_schema
  /\ Len(trace) = 2
  /\ Len(trace[1].llm_actions) = 1
  /\ trace[1].llm_actions[1].type = "explore_schema"
  /\ Len(trace[1].observations) = 1
  /\ NumCalls("probe") = 0
  /\ NumCalls("llm") = 2

\* what a prompt shows of a recorded step
ShownStep(t) == [step |-> t.step, actions |-> t.llm_actions, observations |-> t.observations]

\* what a prompt shows of a linked column
ShownColumn(c) == [name |-> c.name, type |-> c.type]

\* C27: the prompt built at step k shows the recorded steps max(0, k-2) to
\* k-1 and no other, each with its actions and observations, and for every
\* table of the LinkedSchema of that moment the first columns of the table,
\* five at most.
C27_PromptWindow ==
  [][(pc = "loop" /\ pc' = "dispatch") =>
       LET k == step
           first == Max(0, k - 2)
           shown == prompt'.trace_text
           summary == prompt'.schema_summary
       IN  /\ Len(trace) = k
           /\ Len(shown) = k - first
           /\ \A i \in 1..Len(shown) :
                /\ shown[i] = ShownStep(trace[first + i])
                /\ shown[i].step = first + i - 1
           /\ Len(summary) = Len(linked_schema)
           /\ \A i \in 1..Len(summary) :
                /\ summary[i].table = linked_schema[i].table
                /\ Len(summary[i].columns) <= 5
                /\ Len(summary[i].columns) =
                     IF Len(linked_schema[i].columns) < 5
                     THEN Len(linked_schema[i].columns) ELSE 5
                /\ \A j \in 1..Len(summary[i].columns) :
                     summary[i].columns[j] = ShownColumn(linked_schema[i].columns[j])]_vars

\* the prompt of step 3 over a table of six linked columns: it shows
\* steps 1 and 2 of the three recorded and five of the six columns
C27_Witness ==
  /\ pc = "dispatch" /\ step = 3 /\ Len(trace) = 3
  /\ Len(prompt.trace_text) = 2
  /\ prompt.trace_text[1].step = 1 /\ prompt.trace_text[2].step = 2
  /\ \E i \in 1..Len(linked_schema) :
       /\ Len(linked_schema[i].columns) = 6
       /\ Len(prompt.schema_summary[i].columns) = 5

\* the retrieve_schema Observations of a list of observations
RetrieveCount(obs_list) ==
  Cardinality({ j \in 1..Len(obs_list) :
                  /\ "action" \in DOMAIN obs_list[j]
                  /\ obs_list[j].action = "retrieve_schema" })

RECURSIVE RetrievesRecorded(_)
RetrievesRecorded(tr) ==
  IF tr = <<>> THEN 0
  ELSE RetrieveCount(Head(tr).observations) + RetrievesRecorded(Tail(tr))

\* the retrieve_schema actions the run has completed: those of the
\* recorded steps and those of the step being executed
RetrievesCompleted ==
  RetrievesRecorded(trace)
    + (IF pc \in {"dispatch", "raised"} THEN RetrieveCount(observations) ELSE 0)

\* C28: the keys of the retrieval cache are distinct and there is one
\* entry per retrieve_schema action completed so far; a transition never
\* removes or changes an entry, and a retrieve_schema action appends one
\* entry, holding the columns it returned, under a key not used before.
C28_CacheKeysUnique ==
  /\ [](/\ \A i, j \in 1..Len(retrieve_cache) :
             retrieve_cache[i].key = retrieve_cache[j].key => i = j
        /\ Len(retrieve_cache) = RetrievesCompleted)
  /\ [][/\ Len(retrieve_cache') >= Len(retrieve_cache)
        /\ \A i \in 1..Len(retrieve_cache) : retrieve_cache'[i] = retrieve_cache[i]
        /\ (AtRetrieveSchema /\ error' = "") =>
             /\ Len(retrieve_cache') = Len(retrieve_cache) + 1
             /\ \A i \in 1..Len(retrieve_cache) :
                  retrieve_cache[i].key # retrieve_cache'[Len(retrieve_cache')].key
             /\ [k \in 1..Len(retrieve_cache'[Len(retrieve_cache')].cols) |->
                   retrieve_cache'[Len(retrieve_cache')].cols[k].table \o "." \o
                   retrieve_cache'[Len(retrieve_cache')].cols[k].name]
                  = NewObservation.returned
        /\ ~AtRetrieveSchema => retrieve_cache' = retrieve_cache]_vars

\* one step of two retrieve_schema actions left two entries, under the
\* keys step-0-0 and step-0-1
C28_Witness ==
  /\ Done /\ Len(trace) = 1
  /\ RetrieveCount(trace[1].observations) = 2
  /\ Len(retrieve_cache) = 2
  /\ retrieve_cache[1].key = "step-0-0"
  /\ retrieve_cache[2].key = "step-0-1"

\* the candidates of the context verify was called on
Candidates == Get(pipeline.sql_generation_state, "candidates", <<>>)

\* verify has returned
Verified == pipeline.stage \in {"persistence", "returned"}

\* the positions of the candidates the Probe Service answers ok
OkCandidates ==
  { i \in 1..Len(Candidates) : exec_probe(Candidates[i], VerifierMaxRows).status = "ok" }

\* C29: verify probes the candidates one by one in list order and returns
\* one execution record per candidate, in that order, with the status of
\* its probe; the final decision names the first candidate whose probe is
\* ok, and it is the failed decision, sql None, exactly when no probe is
\* ok, an empty or missing candidate list included.
C29_VerifierFirstOk ==
  Verified =>
    LET probes == pipeline.execution_state.probes
        final == pipeline.final_decision
    IN  /\ calls = [i \in 1..Len(Candidates) |-> [svc |-> "probe", sql |-> Candidates[i]]]
        /\ Len(probes) = Len(Candidates)
        /\ \A i \in 1..Len(probes) :
             /\ probes[i].sql = Candidates[i]
             /\ probes[i].status = (IF i \in OkCandidates THEN "ok" ELSE "error")
        /\ (final.status = "failed") <=> (OkCandidates = {})
        /\ (final.sql = None) <=> (OkCandidates = {})
        /\ OkCandidates = {} =>
             final = [sql |-> None, status |-> "failed", reason |-> "no successful candidate"]
        /\ OkCandidates # {} =>
             /\ final.status = "ok"
             /\ \E i \in OkCandidates :
                  /\ \A j \in OkCandidates : i <= j
                  /\ final.sql = Candidates[i]

\* a rejected candidate followed by two accepted ones: the decision is
\* the second candidate of the list
C29_Witness ==
  /\ Verified
  /\ Candidates = <<"drop table orders", "select 1", "select * from orders">>
  /\ pipeline.final_decision.sql = "select 1"
  /\ Len(pipeline.execution_state.probes) = 3

\* the Router has returned
Routed == pipeline.router # <<>>

\* the tokens of the question found in the description of catalog entry i
Shared(i) ==
  Cardinality({ k \in 1..Len(pipeline.user_query) :
                  TokenInDesc(pipeline.user_query[k], pipeline.db_catalog[i].short_desc) })

\* the catalog entries with the best overlap
BestEntries ==
  { i \in 1..Len(pipeline.db_catalog) :
      \A j \in 1..Len(pipeline.db_catalog) : Shared(j) <= Shared(i) }

\* C30: the Router chooses a database whose short description shares the
\* most tokens with the question, among several such the first one in
\* catalog order, and the empty string when the catalog is empty.
C30_RouterPicksBestThenFirst ==
  Routed =>
    /\ pipeline.db_catalog = <<>> => pipeline.router.chosen_db = ""
    /\ pipeline.db_catalog # <<>> =>
         \E i \in BestEntries :
           /\ \A j \in BestEntries : i <= j
           /\ pipeline.router.chosen_db = pipeline.db_catalog[i].db_id

----------------------------------------------------------------------------
\* the state after an add_schema that linked a column the seeding
\* retrieval had not fetched
LinkedBeyondSeed ==
  /\ pc = "dispatch"
  /\ cursor > 1
  /\ actions[cursor - 1].type = "add_schema"
  /\ observations[Len(observations)].added # <<>>
  /\ ~(seen_columns \subseteq {id(c) : c \in Range(InitialCols)})

\* C31: in every state between actions seen_columns is exactly the set of
\* the identities of the columns in LinkedSchema: every linked column is
\* seen and every seen column is linked
C31_SeenIsLinked ==
  /\ \A i \in 1..Len(linked_schema) :
       \A k \in 1..Len(linked_schema[i].columns) :
         id(linked_schema[i].columns[k]) \in seen_columns
  /\ \A col_id \in seen_columns :
       \E i \in 1..Len(linked_schema) :
         \E k \in 1..Len(linked_schema[i].columns) :
           id(linked_schema[i].columns[k]) = col_id

C31_Witness ==
  /\ LinkedBeyondSeed
  /\ seen_columns # {}
  /\ C31_SeenIsLinked

----------------------------------------------------------------------------
\* the identifiers the add_schema being dispatched asks for
Requested ==
  IF "columns" \in DOMAIN actions[cursor]
  THEN {actions[cursor].columns[k] : k \in 1..Len(actions[cursor].columns)}
  ELSE {}

\* C32: every column an add_schema action links into LinkedSchema has an
\* identity equal to one of the identifiers the action requested, whether
\* it was resolved from the cache or by the fallback retrieval
C32_AddedIsRequested ==
  [][AtAddSchema =>
       (LinkedIdentities(linked_schema') \ LinkedIdentities(linked_schema))
         \subseteq Requested]_vars

----------------------------------------------------------------------------
\* a step has just been recorded, or the run went on to its end after it
AfterRecordedStep == pc \in {"loop", "after_loop", "done"} /\ trace # <<>>

\* C33: with min_feedback_actions_per_step >= 1, every step whose
\* observations contain no warning made at least one Column Index
\* retrieval or Probe Service call while dispatching its actions (the
\* last call logged is then not the gateway call that opened the step),
\* also when explore_schema or verify_schema is disabled by configuration
C33_WarningFreeStepUsedATool ==
  (/\ AfterRecordedStep
   /\ config.min_feedback_actions_per_step >= 1
   /\ WarningCount(LastStep.observations) = 0)
  => calls[Len(calls)].svc \in {"index", "probe"}

----------------------------------------------------------------------------
\* position of the first stop_action of an action list, 0 when it has none
FirstStop(acts) ==
  LET stops == {j \in 1..Len(acts) :
                  IsDict(acts[j]) /\ Get(acts[j], "type", None) = "stop_action"}
  IN  IF stops = {} THEN 0 ELSE CHOOSE j \in stops : \A k \in stops : j <= k

\* the identities the context holds under linked_schema
ContextIdentities ==
  UNION { {ctx.linked_schema[i].table \o "." \o ctx.linked_schema[i].columns[k].name :
             k \in 1..Len(ctx.linked_schema[i].columns)} :
          i \in 1..Len(ctx.linked_schema) }

\* the identities the add_schema actions placed after the first
\* stop_action of a recorded step report as added
AddedAfterStop(t) ==
  UNION { {t.observations[j].added[k] : k \in 1..Len(t.observations[j].added)} :
          j \in {n \in (FirstStop(t.llm_actions) + 1)..Len(t.llm_actions) :
                   /\ FirstStop(t.llm_actions) > 0
                   /\ t.llm_actions[n].type = "add_schema"} }

\* C34: all actions of a step are dispatched, in order, even when a
\* stop_action precedes them in the same list: the loop is left only when
\* every action of the list has its Observation and the step is appended
\* to the trace and written to the context, and the columns added by an
\* add_schema placed after the stop_action are in the LinkedSchema the
\* run returns
C34_ActionsAfterStopDispatched ==
  /\ \A i \in 1..Len(trace) :
       LET acts == trace[i].llm_actions
           obs == trace[i].observations
       IN  FirstStop(acts) > 0 =>
             /\ Len(obs) >= Len(acts)
             /\ \A j \in FirstStop(acts)..Len(acts) :
                  /\ "action" \in DOMAIN obs[j]
                  /\ acts[j].type \in {"stop_action", "add_schema", "retrieve_schema"}
                       => obs[j].action = acts[j].type
             /\ AddedAfterStop(trace[i]) \subseteq LinkedIdentities(linked_schema)
             /\ AddedAfterStop(trace[i]) \subseteq ContextIdentities
  /\ (pc \in {"after_loop", "done"} /\ trace # <<>> /\ FirstStop(actions) > 0) =>
       /\ LastStep.llm_actions = actions
       /\ "linking_trace" \in DOMAIN ctx
       /\ Len(ctx.linking_trace) = Len(trace)
       /\ ctx.linking_trace[Len(trace)].llm_actions = actions
       /\ ctx.linking_trace[Len(trace)].observations = LastStep.observations
  /\ (pc = "dispatch" /\ FirstStop(actions) > 0) => Len(observations) = cursor - 1

\* a run returned after a final step [stop_action, add_schema] whose
\* add_schema linked a column the seeding retrieval had not fetched
C34_Witness ==
  /\ Done /\ error = "" /\ trace # <<>>
  /\ FirstStop(LastStep.llm_actions) = 1
  /\ Len(LastStep.llm_actions) = 2
  /\ LastStep.llm_actions[2].type = "add_schema"
  /\ AddedAfterStop(LastStep) # {}
  /\ ~(AddedAfterStop(LastStep) \subseteq {id(c) : c \in Range(InitialCols)})
  /\ AddedAfterStop(LastStep) \subseteq LinkedIdentities(linked_schema)

====
